---- MODULE Spec2Model ----
(***************************************************************************)
(* KnowledgeSynthesizer: the course worker pool (runWorkerPool), the       *)
(* course job (runWorker, in its two variants: with an extraction phase,   *)
(* src/src/worker.ts, and without one, src/unnamed/part_011), and the file *)
(* pool of the extraction phase (processFilesWithPool).                    *)
(*                                                                         *)
(* The program runs on one event loop: an action is the synchronous code   *)
(* that runs between two awaits of one async function. The loop runs the   *)
(* continuations of settled promises (microtasks) before it delivers the   *)
(* next I/O completion, so a settled Promise.race resumes the pool before  *)
(* any other job goes on.                                                   *)
(***************************************************************************)
EXTENDS Naturals, Integers, Sequences, FiniteSets, TLC

\* ---------------------------------------------------------------- bounds
MaxCourses == 3
MaxWorkers == 2
MaxFiles == 1
MaxPoolFiles == 6
MaxGenFiles == 1
MaxArtifacts == 3
MaxPromptFiles == 3
MaxBlobFiles == 2
MaxInputs == 2
MaxTuiIds == 2
MaxCount == 2
MaxLogCalls == 8
MaxNamedFiles == 2
MaxDirs == 2
MaxStems == 2

\* ------------------------------------------------------ program constants
SUBAGENT_POOL_SIZE == 5
MAX_CONTENT_SIZE == 150000
DEFAULT_WORKERS == 3

\* the lengths of the literal pieces of the prompt
HEADER == 76
DIRECTORY_OPEN == 28
FILES_HEADING == 10
FILE_HEADING == 10
FENCE_OPEN == 6
FENCE_CLOSE == 6
NOTICE == 55

VARIABLES
    variant,      \* "extract": src/src/worker.ts; "direct": src/unnamed/part_011
    courses,      \* number of course paths handed to runWorkerPool
    maxWorkers,   \* the worker limit handed to runWorkerPool
    poolPc,       \* where runWorkerPool stands
    queue,        \* runWorkerPool's queue: the courses not started yet
    inProgress,   \* runWorkerPool's inProgress map: its keys (worker ids)
    nextWorkerId, \* runWorkerPool's nextWorkerId
    raceWinner,   \* the id Promise.race settles with, 0 while it is pending
    jpc,          \* per worker id: the await runWorker stands at
    coursePath,   \* per worker id: the course it was given (0: none)
    promise,      \* per worker id: the state of the promise runWorker returned
    result,       \* per worker id: what runWorker returned
    total,        \* per worker id: assets.files.length
    logger,       \* per worker id: the job's Logger
    tuiWorkers,   \* TUI.workers: per worker id, its WorkerStatus
    tuiStopped,   \* stopTUI has run
    sinkLog,      \* per worker id: the progress-sink calls made with that id
    genCalls,     \* per worker id: the number of runGenerator calls
    generationResult, \* per worker id: what runGenerator returned
    \* ---- one call of processFilesWithPool
    files,          \* number of file records handed to the pool
    extension,      \* per file: the class of its extension
    filePc,         \* where processFilesWithPool stands
    fileQueue,      \* its queue: the files not shifted yet
    fileInProgress, \* its inProgress set: the files whose promise is in it
    fileRace,       \* the file Promise.race settles with, 0 while pending
    task,           \* per file: "queued", "skipped", "running", "done"
    fileResult,     \* per file: the ProcessResult its promise resolved with
    results,        \* per file: how many times its result was pushed
    processed,      \* the pool's processed counter
    fileLogger,     \* the Logger handed to the pool
    progress,       \* the processed counts passed to tui.updateWorker
    \* ---- one call of runGenerator
    genPc,          \* the await runGenerator stands at
    genAssets,      \* assets.files.length
    mdFiles,        \* number of .md files under outputDir
    tempPromptFile, \* _temp_prompt.txt exists
    invocations,    \* number of times the claude process was started
    exitCode,       \* result.exitCode
    stdout,         \* result.stdout: "" or "text"
    stderr,         \* result.stderr: "" or "text"
    createdFiles,   \* createdFiles.length
    debugLog,       \* what _generation_log.txt holds ("absent": no such file)
    genResult,      \* the GeneratorResult returned
    \* ---- one call of buildContentPrompt
    promptPc,       \* "idle", "called", "returned"
    promptAssets,   \* the ParsedAssets handed to buildContentPrompt
    content,        \* the string buildContentPrompt returned
    \* ---- one call of parseFileAssets
    parsePc,        \* "idle", "called", "returned"
    blobSource,     \* what the blob was written from
    blobContent,    \* the text handed to parseFileAssets
    parsed,         \* the ParsedAssets parseFileAssets returned
    \* ---- main of the command line
    cliPc,          \* the await main stands at
    cliArgs,        \* the parsed arguments and what the input paths hold
    cliIndex,       \* the input path the validation loop stands at
    exitStatus,     \* the status the process exited with (cliPc = "exited")
    \* ---- one TUI object
    tuiPc,          \* "idle", "init" (init() is awaited), "ready"
    tuiInit,        \* how init() went
    enabled,        \* TUI.enabled
    renderer,       \* TUI.renderer is not null
    workerRows,     \* TUI.workerRows: its keys
    tuiThrew,       \* a method of the TUI has thrown
    \* ---- one Logger object
    runLogger,      \* the Logger
    logCalls,       \* how many times each of its methods was called
    \* ---- the file system
    fileEntry,      \* per file of the extraction pool: its FileEntry
    oldFiles        \* number of .md files under outputDir at runGenerator's call

courseVars == <<variant, courses, maxWorkers, poolPc, queue, inProgress,
                nextWorkerId, raceWinner, jpc, coursePath, promise, result,
                total, logger, tuiWorkers, tuiStopped, sinkLog, genCalls,
                generationResult>>

fileVars == <<files, extension, filePc, fileQueue, fileInProgress, fileRace,
              task, fileResult, results, processed, fileLogger, progress>>

genVars == <<genPc, genAssets, mdFiles, tempPromptFile, invocations, exitCode,
             stdout, stderr, createdFiles, debugLog, genResult>>

promptVars == <<promptPc, promptAssets, content>>

parseVars == <<parsePc, blobSource, blobContent, parsed>>

cliVars == <<cliPc, cliArgs, cliIndex, exitStatus>>

tuiVars == <<tuiPc, tuiInit, enabled, renderer, workerRows, tuiThrew>>

loggerVars == <<runLogger, logCalls>>

otherVars == <<tuiVars, loggerVars, fileEntry, oldFiles>>

auxVars == <<promptVars, parseVars, cliVars, otherVars>>

vars == <<courseVars, fileVars, genVars, auxVars>>

WorkerIds == 1..MaxCourses

FileIds == 1..MaxPoolFiles

\* ------------------------------------------------------------------ helpers
Min(S) == CHOOSE x \in S : \A y \in S : x <= y

RECURSIVE SeqCount(_, _)
SeqCount(s, op) ==
    IF s = <<>> THEN 0
    ELSE (IF Head(s).op = op THEN 1 ELSE 0) + SeqCount(Tail(s), op)

\* ------------------------------------------------------------- the Logger
NewLogger == [filesProcessed |-> 0, filesFailed |-> 0, errors |-> 0,
              warnings |-> 0, saved |-> 0]

\* mutant: the error is not recorded
LoggerErrorDropped(l) == l

LoggerError(l) == [l EXCEPT !.errors = @ + 1, !.filesFailed = @ + 1]

\* mutant: the warning is logged as an error
LoggerWarnAsError(l) == LoggerError(l)

LoggerWarn(l) == [l EXCEPT !.warnings = @ + 1]

LoggerSuccess(l) == [l EXCEPT !.filesProcessed = @ + 1]

LoggerSaveLog(l) == [l EXCEPT !.saved = @ + 1]

\* ---------------------------------------------------- the progress sink
NoStatus == [status |-> "absent", processed |-> 0, total |-> 0]

\* mutant: the worker is registered without its file count
addWorkerWithoutTotal(tw, id, totalFiles) ==
    [tw EXCEPT ![id] = [status |-> "pending", processed |-> 0, total |-> 0]]

addWorker(tw, id, totalFiles) ==
    [tw EXCEPT ![id] = [status |-> "pending", processed |-> 0,
                        total |-> totalFiles]]

updateWorker(tw, id, count) ==
    IF tw[id].status = "absent" THEN tw
    ELSE [tw EXCEPT ![id].status = "processing", ![id].processed = count]

completeWorker(tw, id, success) ==
    IF tw[id].status = "absent" THEN tw
    ELSE [tw EXCEPT ![id].status = IF success THEN "complete" ELSE "error"]

setGenerating(tw, id) == tw

setGenerationComplete(tw, id) == tw

Call(op, n, ok) == [op |-> op, n |-> n, ok |-> ok]

ApplyCall(tw, id, c) ==
    CASE c.op = "addWorker" -> addWorker(tw, id, c.n)
      [] c.op = "updateWorker" -> updateWorker(tw, id, c.n)
      [] c.op = "completeWorker" -> completeWorker(tw, id, c.ok)
      [] c.op = "setGenerating" -> setGenerating(tw, id)
      [] c.op = "setGenerationComplete" -> setGenerationComplete(tw, id)

RECURSIVE ApplyCalls(_, _, _)
ApplyCalls(tw, id, calls) ==
    IF calls = <<>> THEN tw
    ELSE ApplyCalls(ApplyCall(tw, id, Head(calls)), id, Tail(calls))

\* mutant: every job writes to the slot of the first worker id
SinkSharedSlot(w, calls) ==
    /\ tuiWorkers' = ApplyCalls(tuiWorkers, 1, calls)
    /\ sinkLog' = [sinkLog EXCEPT ![w] = @ \o calls]

\* the job with worker id w makes these sink calls, in this order
Sink(w, calls) ==
    /\ tuiWorkers' = ApplyCalls(tuiWorkers, w, calls)
    /\ sinkLog' = [sinkLog EXCEPT ![w] = @ \o calls]

\* ------------------------------------------------------------ runWorkerPool
\* mutant: the loop ends as soon as the queue is empty
PoolLoopCondQueueOnly(q, n) == Len(q) > 0

\* while (queue.length > 0 || inProgress.size > 0)
PoolLoopCond(q, n) == Len(q) > 0 \/ n > 0

\* mutant: one worker too many is started
CanStartWorkerOffByOne(q, n) == Len(q) > 0 /\ n <= maxWorkers

\* mutant: one slot is never used
CanStartWorkerKeepsSlotFree(q, n) == Len(q) > 0 /\ n + 1 < maxWorkers

\* while (queue.length > 0 && inProgress.size < maxWorkers)
CanStartWorker(q, n) == Len(q) > 0 /\ n < maxWorkers

\* the number of workers one run of the inner while loop starts
RECURSIVE FillCount(_, _)
FillCount(q, n) ==
    IF CanStartWorker(q, n) THEN 1 + FillCount(Tail(q), n + 1) ELSE 0

\* mutant: the completed worker stays in the map
DeleteCompletedNothing(inP, id) == inP

\* inProgress.delete(completed.id)
DeleteCompleted(inP, id) == inP \ {id}

\* the promises of inP that are settled
Settled(inP, pr) == {w \in inP : pr[w] \in {"fulfilled", "rejected"}}

\* One pass of the outer loop from its test to the next await, with q, inP the
\* queue and the map at the test: start workers while there is room, then wait
\* for one of them, or leave the loop. `gone` holds the id just deleted from
\* the map: nothing refers to that job's promise, result and Logger any more
\* (runWorkerPool drops the result), only its WorkerStatus stays in the TUI.
PoolIterate(q, inP, gone) ==
    LET n == Cardinality(inP)
        k == IF PoolLoopCond(q, n) THEN FillCount(q, n) ELSE 0
        ids == nextWorkerId .. (nextWorkerId + k - 1)
        inP2 == inP \cup ids
        q2 == SubSeq(q, k + 1, Len(q))
        Fresh(w) == w \in ids \/ w \in gone
    IN  /\ queue' = q2
        /\ inProgress' = inP2
        /\ nextWorkerId' = nextWorkerId + k
        /\ coursePath' = [w \in WorkerIds |->
                IF w \in ids THEN q[w - nextWorkerId + 1] ELSE coursePath[w]]
        \* runWorker runs to its first await: new Logger(), loadFileAssets
        /\ jpc' = [w \in WorkerIds |-> IF w \in ids THEN "load" ELSE jpc[w]]
        /\ promise' = [w \in WorkerIds |->
                IF w \in ids THEN "pending" ELSE promise[w]]
        /\ logger' = [w \in WorkerIds |->
                IF Fresh(w) THEN NewLogger ELSE logger[w]]
        /\ result' = [w \in WorkerIds |->
                IF Fresh(w) THEN "none" ELSE result[w]]
        /\ total' = [w \in WorkerIds |-> IF Fresh(w) THEN 0 ELSE total[w]]
        /\ generationResult' = [w \in WorkerIds |->
                IF Fresh(w) THEN "none" ELSE generationResult[w]]
        /\ genCalls' = [w \in WorkerIds |-> IF Fresh(w) THEN 0 ELSE genCalls[w]]
        /\ sinkLog' = [w \in WorkerIds |-> IF Fresh(w) THEN <<>> ELSE sinkLog[w]]
        /\ poolPc' = IF ~PoolLoopCond(q, n) THEN "sleep"
                     ELSE IF inP2 # {} THEN "race"
                     ELSE IF PoolLoopCond(q2, 0) THEN "spin" ELSE "sleep"
        \* Promise.race over the entries in insertion order: a promise that is
        \* settled already wins, the first of them first
        /\ raceWinner' = IF PoolLoopCond(q, n) /\ Settled(inP2, promise) # {}
                         THEN Min(Settled(inP2, promise)) ELSE 0
        /\ UNCHANGED <<variant, courses, maxWorkers, tuiWorkers, tuiStopped>>
        /\ UNCHANGED <<fileVars, genVars, auxVars>>

\* getTUI() resolved: the loop is entered
PoolStart ==
    /\ poolPc = "getTUI"
    /\ PoolIterate(queue, inProgress, {})

\* Promise.race settled: the awaiting loop goes on
PoolObserve ==
    /\ poolPc = "race"
    /\ raceWinner # 0
    /\ IF promise[raceWinner] = "rejected"
       THEN /\ poolPc' = "threw"
            /\ UNCHANGED <<variant, courses, maxWorkers, queue, inProgress,
                           nextWorkerId, raceWinner, jpc, coursePath, promise,
                           result, total, logger, tuiWorkers, tuiStopped,
                           sinkLog, genCalls, generationResult>>
            /\ UNCHANGED <<fileVars, genVars, auxVars>>
       ELSE PoolIterate(queue, DeleteCompleted(inProgress, raceWinner),
                        {raceWinner})

\* the 500 ms timer fired: stopTUI() is called
PoolTimer ==
    /\ poolPc = "sleep"
    /\ poolPc' = "stopTUI"
    /\ UNCHANGED <<fileVars, genVars, auxVars>>
    /\ UNCHANGED <<variant, courses, maxWorkers, queue, inProgress,
                   nextWorkerId, raceWinner, jpc, coursePath, promise, result,
                   total, logger, tuiWorkers, tuiStopped, sinkLog, genCalls,
                   generationResult>>

\* stopTUI() resolved: runWorkerPool returns
PoolReturn ==
    /\ poolPc = "stopTUI"
    /\ poolPc' = "returned"
    /\ tuiStopped' = TRUE
    /\ UNCHANGED <<fileVars, genVars, auxVars>>
    /\ UNCHANGED <<variant, courses, maxWorkers, queue, inProgress,
                   nextWorkerId, raceWinner, jpc, coursePath, promise, result,
                   total, logger, tuiWorkers, sinkLog, genCalls,
                   generationResult>>

\* ----------------------------------------------------------------- runWorker
\* mutant: the catch block rethrows
CatchRethrows == "rejected"

\* how the promise of runWorker settles when the catch block has run
CatchSettles == "fulfilled"

\* One synchronous stretch of the job with worker id w, up to the await pc2
\* ("done": the function returned or threw, and its promise settles as `how`).
JobStep(w, pc2, calls, lg, res, how) ==
    \* no continuation of the pool is due
    /\ ~(poolPc = "race" /\ raceWinner # 0)
    /\ jpc' = [jpc EXCEPT ![w] = pc2]
    /\ Sink(w, calls)
    /\ logger' = [logger EXCEPT ![w] = lg]
    /\ result' = [result EXCEPT ![w] = res]
    /\ promise' = [promise EXCEPT ![w] = IF pc2 = "done" THEN how ELSE @]
    /\ raceWinner' = IF pc2 = "done" /\ poolPc = "race" /\ raceWinner = 0
                        /\ w \in inProgress
                     THEN w ELSE raceWinner
    /\ UNCHANGED <<variant, courses, maxWorkers, poolPc, queue, inProgress,
                   nextWorkerId, coursePath, tuiStopped>>
    /\ UNCHANGED <<fileVars, genVars, auxVars>>

\* catch (error): logger.error, tui.completeWorker(workerId, false, errorMsg)
Catch(w) ==
    /\ JobStep(w, "done", <<Call("completeWorker", 0, FALSE)>>,
               LoggerError(logger[w]), "exception", CatchSettles)
    /\ UNCHANGED <<total, genCalls, generationResult>>

\* mutant: the check for zero files is missing
NoFilesFoundNever(n) == FALSE

\* if (filesCount === 0)
NoFilesFound(n) == n = 0

\* mutant: an extraction that processed nothing counts as a success
ExtractionSuccessAlways(lg) == lg.filesProcessed >= 0

\* const extractionSuccess = log.files_processed > 0
ExtractionSuccess(lg) == lg.filesProcessed > 0

\* mutant: the generator is called a second time
CallGeneratorAgain(w) ==
    /\ genCalls' = [genCalls EXCEPT ![w] = @ + 2]
    /\ UNCHANGED generationResult

\* runGenerator is called and awaited
CallGenerator(w) ==
    /\ genCalls' = [genCalls EXCEPT ![w] = @ + 1]
    /\ UNCHANGED generationResult

\* loadFileAssets threw (no asset file, or it cannot be read)
LoadFileAssetsThrows(w) ==
    /\ jpc[w] = "load"
    /\ Catch(w)

\* loadFileAssets returned assets with n files
LoadFileAssetsReturns(w) ==
    /\ jpc[w] = "load"
    /\ \E n \in 0..MaxFiles :
        /\ total' = [total EXCEPT ![w] = n]
        /\ IF variant = "extract"
           THEN \* addWorker, then await Bun.write(.gitkeep)
                /\ JobStep(w, "gitkeep", <<Call("addWorker", n, TRUE)>>,
                           logger[w], result[w], "pending")
                /\ UNCHANGED <<genCalls, generationResult>>
           ELSE IF NoFilesFound(n)
           THEN /\ JobStep(w, "done",
                           <<Call("addWorker", n, TRUE),
                             Call("updateWorker", 0, TRUE),
                             Call("completeWorker", 0, FALSE)>>,
                           logger[w], "zero_files", "fulfilled")
                /\ UNCHANGED <<genCalls, generationResult>>
           ELSE /\ JobStep(w, "generate",
                           <<Call("addWorker", n, TRUE),
                             Call("updateWorker", 0, TRUE),
                             Call("updateWorker", n, TRUE),
                             Call("setGenerating", 0, TRUE)>>,
                           logger[w], result[w], "pending")
                /\ CallGenerator(w)

\* Bun.write(.gitkeep) threw
GitkeepThrows(w) ==
    /\ jpc[w] = "gitkeep"
    /\ Catch(w)

\* Bun.write(.gitkeep) resolved: processFilesWithPool is called and awaited
GitkeepWritten(w) ==
    /\ jpc[w] = "gitkeep"
    /\ JobStep(w, "extract", <<>>, logger[w], result[w], "pending")
    /\ UNCHANGED <<total, genCalls, generationResult>>

\* processFilesWithPool returned (the pool itself: the File* actions below).
\* Of the job's files, s were processed with success and f were logged as
\* failed; the last progress update carries the count of all of them.
ProcessFilesWithPoolReturns(w) ==
    /\ jpc[w] = "extract"
    /\ \E s \in 0..total[w] : \E f \in 0..(total[w] - s) :
        JobStep(w, "savelog",
                IF total[w] > 0
                THEN <<Call("updateWorker", total[w], TRUE)>> ELSE <<>>,
                [logger[w] EXCEPT !.filesProcessed = s, !.filesFailed = f,
                                  !.errors = f],
                result[w], "pending")
    /\ UNCHANGED <<total, genCalls, generationResult>>

\* logger.saveLog threw
SaveLogThrows(w) ==
    /\ jpc[w] = "savelog"
    /\ Catch(w)

\* logger.saveLog resolved
SaveLogWritten(w) ==
    /\ jpc[w] = "savelog"
    /\ LET lg == LoggerSaveLog(logger[w])
       IN IF variant = "extract"
          THEN IF ~ExtractionSuccess(lg)
               THEN /\ JobStep(w, "done", <<Call("completeWorker", 0, FALSE)>>,
                               lg, "extraction_failed", "fulfilled")
                    /\ UNCHANGED <<total, genCalls, generationResult>>
               ELSE /\ JobStep(w, "generate", <<Call("setGenerating", 0, TRUE)>>,
                               lg, result[w], "pending")
                    /\ CallGenerator(w)
                    /\ UNCHANGED total
          ELSE /\ JobStep(w, "done", <<>>, lg,
                          IF generationResult[w] = "success"
                          THEN "generated" ELSE "generation_failed",
                          "fulfilled")
               /\ UNCHANGED <<total, genCalls, generationResult>>

\* runGenerator returned its result (it catches what it throws)
RunGeneratorReturns(w) ==
    /\ jpc[w] = "generate"
    /\ \E ok \in BOOLEAN :
        /\ generationResult' =
              [generationResult EXCEPT ![w] = IF ok THEN "success" ELSE "failure"]
        /\ IF variant = "extract"
           THEN JobStep(w, "done",
                        <<Call("setGenerationComplete", 0, ok),
                          Call("completeWorker", 0, ok)>>,
                        logger[w],
                        IF ok THEN "generated" ELSE "generation_failed",
                        "fulfilled")
           ELSE \* completeWorker first, then await logger.saveLog
                JobStep(w, "savelog",
                        <<Call("setGenerationComplete", 0, ok),
                          Call("completeWorker", 0, ok)>>,
                        logger[w], result[w], "pending")
    /\ UNCHANGED <<total, genCalls>>

\* ------------------------------------------------------ processFilesWithPool
\* The classes of extensions EXTENSION_MAP tells apart
Extensions == {"media", "unmapped", "archive", "content"}

\* mutant: an extension the map does not hold is skipped
getProcessorDefaultSkip(ext) ==
    CASE ext = "media" -> "skip"
      [] ext = "unmapped" -> "skip"
      [] ext = "archive" -> "archive-extractor"
      [] ext = "content" -> "extract"

\* getProcessor: "skip" for binary media, null ("none") for an extension the
\* map does not hold, else the processor's name
getProcessor(ext) ==
    CASE ext = "media" -> "skip"
      [] ext = "unmapped" -> "none"
      [] ext = "archive" -> "archive-extractor"
      [] ext = "content" -> "extract"

\* processFile returns without awaiting anything (its promise is fulfilled at
\* the call) for a null processor and for a processor scriptMap does not hold
ResolvesAtCall(ext) == getProcessor(ext) \in {"none", "archive-extractor"}

\* what processFile can end with: a result with success, a result with an
\* error, a result with success: false and an empty error ("silent": the
\* script left with an exit code other than 0 and wrote nothing to stderr), or
\* a rejection
ProcessFileEnds(ext) ==
    IF ResolvesAtCall(ext) THEN {"error"}
    ELSE {"success", "error", "silent", "throw"}

\* the extensions of file names told apart: one for each kind of processor
FileExtensions == {".md", ".pdf", ".docx", ".mp4", ".zip", ".xyz"}

\* EXTENSION_MAP[extension] || null
EXTENSION_MAP(ext) ==
    CASE ext = ".md" -> "passthrough"
      [] ext = ".pdf" -> "extractor-pdf"
      [] ext = ".docx" -> "extractor-docx"
      [] ext = ".mp4" -> "skip"
      [] ext = ".zip" -> "archive-extractor"
      [] OTHER -> "none"

\* the class of Extensions an extension belongs to
ExtensionClass(ext) ==
    CASE EXTENSION_MAP(ext) = "skip" -> "media"
      [] EXTENSION_MAP(ext) = "none" -> "unmapped"
      [] EXTENSION_MAP(ext) = "archive-extractor" -> "archive"
      [] OTHER -> "content"

\* a FileEntry: path = dir/stem.ext, filename = stem.ext, extension = ext
FileRecord(dir, stem, ext) == [dir |-> dir, stem |-> stem, ext |-> ext]

\* a path under outputDir: outputDir/<prefix><stem><ext>
OutputDirPath(prefix, stem, ext) ==
    [prefix |-> prefix, stem |-> stem, ext |-> ext]

\* processWithScript: tempFile = `${outputDir}/.tmp_${file.filename}`
TempFile(file) == OutputDirPath(<<".tmp_">>, file.stem, file.ext)

\* processWithScript: file.filename.replace(/\.[^.]+$/, ".md")
ScriptOutputPath(file) == OutputDirPath(<<>>, file.stem, ".md")

\* processPassthrough: outputPath = `${outputDir}/${file.filename}`
PassthroughOutputPath(file) == OutputDirPath(<<>>, file.stem, file.ext)

\* processWithScript: the processors scriptMap holds
scriptMap == {"extractor-pdf", "extractor-docx"}

\* the paths processFile writes or removes while it is awaited
PathsTouched(file) ==
    IF EXTENSION_MAP(file.ext) = "passthrough"
    THEN {PassthroughOutputPath(file)}
    ELSE IF EXTENSION_MAP(file.ext) \in scriptMap
    THEN {TempFile(file), ScriptOutputPath(file)}
    ELSE {}

\* mutant: the loop ends as soon as the queue is empty
FileLoopCondQueueOnly(q, n) == Len(q) > 0

\* while (queue.length > 0 || inProgress.size > 0)
FileLoopCond(q, n) == Len(q) > 0 \/ n > 0

\* mutant: one task too many is started
FileCanStartOffByOne(q, n) == Len(q) > 0 /\ n <= SUBAGENT_POOL_SIZE

\* while (queue.length > 0 && inProgress.size < SUBAGENT_POOL_SIZE)
FileCanStart(q, n) == Len(q) > 0 /\ n < SUBAGENT_POOL_SIZE

\* The inner while loop on st = [q, inP, processed, log, progress]: a skipped
\* file is counted and reported at once, any other file is reported and its
\* processFile promise is added to the set.
RECURSIVE FileFill(_)
FileFill(st) ==
    IF ~FileCanStart(st.q, Cardinality(st.inP)) THEN st
    ELSE LET f == Head(st.q)
             proc == getProcessor(extension[f])
         IN IF proc = "skip"
            THEN FileFill([st EXCEPT !.q = Tail(@),
                                     !.log = LoggerWarn(@),
                                     !.processed = @ + 1,
                                     !.progress = Append(@, st.processed + 1)])
            ELSE FileFill([st EXCEPT !.q = Tail(@),
                                     !.progress = Append(@, st.processed),
                                     \* processFile warns of an unknown type
                                     !.log = IF proc = "none"
                                             THEN LoggerWarn(@) ELSE @,
                                     !.inP = @ \cup {f}])

\* results.push(completed)
PushResult(res, f) == [res EXCEPT ![f] = @ + 1]

\* One pass of the outer loop from its test to the next await (or the return)
FileIterate(q, inP, res) ==
    LET st0 == [q |-> q, inP |-> inP, processed |-> processed,
                log |-> fileLogger, progress |-> progress]
        go == FileLoopCond(q, Cardinality(inP))
        st == IF go THEN FileFill(st0) ELSE st0
        shifted == {q[i] : i \in 1..(Len(q) - Len(st.q))}
    IN  /\ fileQueue' = st.q
        /\ fileInProgress' = st.inP
        /\ processed' = st.processed
        /\ fileLogger' = st.log
        /\ progress' = st.progress
        /\ results' = res
        /\ task' = [f \in FileIds |->
                IF f \in shifted
                THEN (IF f \in st.inP THEN "running" ELSE "skipped")
                ELSE task[f]]
        /\ filePc' = IF ~go THEN "returned"
                     ELSE IF st.inP # {} THEN "race"
                     ELSE IF FileLoopCond(st.q, 0) THEN "spin" ELSE "returned"
        /\ fileRace' = 0
        /\ UNCHANGED <<files, extension, fileResult>>
        /\ UNCHANGED <<courseVars, genVars, auxVars>>

\* processFilesWithPool is called
FilePoolStart ==
    /\ filePc = "called"
    /\ FileIterate(fileQueue, fileInProgress, results)

\* the files whose promise was fulfilled at the call and whose handler is due
HandlersDue == {f \in fileInProgress : ResolvesAtCall(extension[f])}

\* Promise.race settled, and the handlers that were due have run: the awaiting
\* loop goes on
FilePoolObserve ==
    /\ filePc = "race"
    /\ fileRace # 0
    /\ HandlersDue = {}
    /\ IF fileResult[fileRace] = "rejected"
       THEN /\ filePc' = "threw"
            /\ UNCHANGED <<files, extension, fileQueue, fileInProgress,
                           fileRace, task, fileResult, results, processed,
                           fileLogger, progress>>
            /\ UNCHANGED <<courseVars, genVars, auxVars>>
       ELSE FileIterate(fileQueue, fileInProgress,
                        PushResult(results, fileRace))

\* processFile of file f has ended with `how`: the .then handler (or the
\* .catch handler when it rejected) runs. lg is the Logger after it.
\* .then: if (result.success) logger.success(); else if (result.error)
\* logger.error(...); .catch: logger.error(...)
HandlerLog(lg, how) ==
    IF how = "success" THEN LoggerSuccess(lg)
    ELSE IF how = "silent" THEN lg ELSE LoggerError(lg)

\* mutant: the chain has no .catch handler
HandlerResultNoCatch(how) ==
    IF how = "success" THEN "success"
    ELSE IF how = "silent" THEN "failure_no_error"
    ELSE IF how = "throw" THEN "rejected" ELSE "failure"

\* what the promise in the set settles with: the .then handler returns the
\* result (with an error or without one when success is false), the .catch
\* handler returns a result with success: false and an error
HandlerResult(how) ==
    IF how = "success" THEN "success"
    ELSE IF how = "silent" THEN "failure_no_error" ELSE "failure"

FileSettle(f, how) ==
    /\ fileInProgress' = fileInProgress \ {f}
    /\ processed' = processed + 1
    /\ progress' = Append(progress, processed + 1)
    /\ fileLogger' = HandlerLog(fileLogger, how)
    /\ fileResult' = [fileResult EXCEPT ![f] = HandlerResult(how)]
    /\ task' = [task EXCEPT ![f] = "done"]
    /\ fileRace' = IF filePc = "race" /\ fileRace = 0 THEN f ELSE fileRace
    /\ UNCHANGED <<files, extension, filePc, fileQueue, results>>
    /\ UNCHANGED <<courseVars, genVars, auxVars>>

\* the handler of a promise that was fulfilled at the call: these run first,
\* in the order of the calls
FileSettlesAtOnce(f) ==
    /\ task[f] = "running"
    /\ HandlersDue # {}
    /\ f = Min(HandlersDue)
    /\ \E how \in ProcessFileEnds(extension[f]) : FileSettle(f, how)

\* the extraction of file f ended (a write or a script came back)
FileExtracted(f) ==
    /\ task[f] = "running"
    /\ ~ResolvesAtCall(extension[f])
    /\ HandlersDue = {}
    /\ fileRace = 0
    /\ \E how \in ProcessFileEnds(extension[f]) : FileSettle(f, how)

\* -------------------------------------------------------------- runGenerator
\* the exit codes told apart: 0 and one that is not 0
ExitCodes == {0, 1}

NoResult == [success |-> FALSE, filesGenerated |-> 0, error |-> <<>>]

\* { success: false, filesGenerated: [], error }
GenFailure(err) == [success |-> FALSE, filesGenerated |-> 0, error |-> err]

\* { success: true, filesGenerated: createdFiles }
GenSuccess(n) == [success |-> TRUE, filesGenerated |-> n, error |-> <<>>]

\* runGenerator returns res
GenReturn(res) ==
    /\ genPc' = "returned"
    /\ genResult' = res

\* catch (error): the result carries the exception's message, which tells the
\* operation that threw
GenCatch ==
    /\ GenReturn(GenFailure(<<"exception", genPc>>))
    /\ UNCHANGED <<genAssets, mdFiles, tempPromptFile, invocations, exitCode,
                   stdout, stderr, createdFiles, debugLog>>
    /\ UNCHANGED <<courseVars, fileVars, auxVars>>

\* if (assets.files.length === 0)
NoAssets(n) == n = 0

\* if (result.exitCode !== 0)
ExitFailed(code) == code # 0

\* mutant: the check for zero created files is missing
NoFilesGeneratedNever(n) == FALSE

\* if (createdFiles.length === 0)
NoFilesGenerated(n) == n = 0

\* result.stderr?.toString() || "Unknown error"
ErrorMsg(err) == IF err = "" THEN "Unknown error" ELSE err

\* result.stdout?.toString() || "No output"
DebugText(out) == IF out = "" THEN "No output" ELSE out

\* Bun.file(skill.path).text() threw
SkillReadThrows ==
    /\ genPc = "skill"
    /\ GenCatch

\* Bun.file(skill.path).text() resolved
SkillRead ==
    /\ genPc = "skill"
    /\ IF NoAssets(genAssets)
       THEN GenReturn(GenFailure(<<"No files found">>))
       ELSE \* buildContentPrompt, then await Bun.write(tempPromptFile)
            /\ genPc' = "tempwrite"
            /\ UNCHANGED genResult
    /\ UNCHANGED <<genAssets, mdFiles, tempPromptFile, invocations, exitCode,
                   stdout, stderr, createdFiles, debugLog>>
    /\ UNCHANGED <<courseVars, fileVars, auxVars>>

\* Bun.write(tempPromptFile, fullPrompt) threw
TempWriteThrows ==
    /\ genPc = "tempwrite"
    /\ GenCatch

\* Bun.write(tempPromptFile, fullPrompt) resolved
TempWritten ==
    /\ genPc = "tempwrite"
    /\ tempPromptFile' = TRUE
    /\ genPc' = "gitkeep"
    /\ UNCHANGED <<genAssets, mdFiles, invocations, exitCode, stdout,
                   stderr, createdFiles, debugLog, genResult>>
    /\ UNCHANGED <<courseVars, fileVars, auxVars>>

\* Bun.write(outputDir/.gitkeep) threw
OutputDirThrows ==
    /\ genPc = "gitkeep"
    /\ GenCatch

\* Bun.write(outputDir/.gitkeep) resolved: the claude process is started
OutputDirWritten ==
    /\ genPc = "gitkeep"
    /\ genPc' = "claude"
    /\ invocations' = invocations + 1
    /\ UNCHANGED <<genAssets, mdFiles, tempPromptFile, exitCode, stdout,
                   stderr, createdFiles, debugLog, genResult>>
    /\ UNCHANGED <<courseVars, fileVars, auxVars>>

\* the claude process exited (.nothrow(): no exit code throws), having written
\* some .md files under outputDir; rm of the temp file is awaited
ClaudeExits ==
    /\ genPc = "claude"
    /\ \E code \in ExitCodes, out \in {"", "text"}, err \in {"", "text"},
          made \in 0..(MaxArtifacts - mdFiles) :
        /\ exitCode' = code
        /\ stdout' = out
        /\ stderr' = err
        /\ mdFiles' = mdFiles + made
    /\ genPc' = "rm"
    /\ UNCHANGED <<genAssets, tempPromptFile, invocations, createdFiles,
                   debugLog, genResult>>
    /\ UNCHANGED <<courseVars, fileVars, auxVars>>

\* rm tempPromptFile came back; then the exit code is looked at, and the scan
\* of outputDir is started
RmDone ==
    /\ genPc = "rm"
    /\ tempPromptFile' = FALSE
    /\ IF ExitFailed(exitCode)
       THEN GenReturn(GenFailure(<<"Claude CLI failed with exit code",
                                   exitCode, ErrorMsg(stderr)>>))
       ELSE /\ genPc' = "scan"
            /\ UNCHANGED genResult
    /\ UNCHANGED <<genAssets, mdFiles, invocations, exitCode, stdout,
                   stderr, createdFiles, debugLog>>
    /\ UNCHANGED <<courseVars, fileVars, auxVars>>

\* glob.scan threw
ScanThrows ==
    /\ genPc = "scan"
    /\ GenCatch

\* glob.scan("**/*.md") ended
ScanDone ==
    /\ genPc = "scan"
    /\ createdFiles' = mdFiles
    /\ IF NoFilesGenerated(mdFiles)
       THEN \* await Bun.write(debugPath, ...)
            /\ genPc' = "debuglog"
            /\ UNCHANGED genResult
       ELSE GenReturn(GenSuccess(mdFiles))
    /\ UNCHANGED <<genAssets, mdFiles, tempPromptFile, invocations, exitCode,
                   stdout, stderr, debugLog>>
    /\ UNCHANGED <<courseVars, fileVars, auxVars>>

\* Bun.write(debugPath, ...) threw
DebugLogThrows ==
    /\ genPc = "debuglog"
    /\ GenCatch

\* Bun.write(debugPath, ...) resolved
DebugLogWritten ==
    /\ genPc = "debuglog"
    /\ debugLog' = DebugText(stdout)
    /\ GenReturn(GenFailure(<<"No files were generated">>))
    /\ UNCHANGED <<genAssets, mdFiles, tempPromptFile, invocations, exitCode,
                   stdout, stderr, createdFiles>>
    /\ UNCHANGED <<courseVars, fileVars, auxVars>>

\* -------------------------------------------------------- buildContentPrompt
\* A string is held as its pieces, each with its length in characters; a file
\* record holds the lengths of its filename and of its content.

\* a piece of the prompt: `file` is the index of the file record of a section
Part(kind, file, length) == [kind |-> kind, file |-> file, length |-> length]

\* content.length
RECURSIVE StringLength(_)
StringLength(c) ==
    IF c = <<>> THEN 0 ELSE Head(c).length + StringLength(Tail(c))

\* "# Course Content\n\nThe following files have been extracted from the
\* course:\n\n"
HeaderPart == Part("header", 0, HEADER)

\* "## Directory Structure\n\n```\n" + assets.directoryListing + "\n```\n\n"
DirectoryPart(listing) ==
    Part("directory", 0, DIRECTORY_OPEN + listing + FENCE_CLOSE)

\* "## Files\n\n"
FilesPart == Part("files", 0, FILES_HEADING)

\* `### File: ${file.filename}\n\n\`\`\`\n${file.content}\n\`\`\`\n\n`
FileSection(file) ==
    FILE_HEADING + file.filename + FENCE_OPEN + file.content + FENCE_CLOSE

\* `\n[Note: Additional files truncated due to size limits]\n`
NoticePart == Part("notice", 0, NOTICE)

skipExtensions ==
    {".mp4", ".mkv", ".avi", ".mov", ".mp3", ".wav", ".exe", ".dll", ".so",
     ".bin", ".zip", ".rar", ".7z"}

\* file.extension.toLowerCase(), over the extensions of PromptExtensions
toLowerCase(ext) ==
    CASE ext = ".MP4" -> ".mp4"
      [] ext = ".MD" -> ".md"
      [] OTHER -> ext

\* mutant: no file is skipped
SkipsNothing(file) == FALSE

\* skipExtensions.includes(file.extension.toLowerCase())
Skips(file) == toLowerCase(file.extension) \in skipExtensions

\* mutant: a section is measured on its own, not with what was added before
OverBudgetAlone(totalSize, section) == section > MAX_CONTENT_SIZE

\* totalSize + fileSection.length > MAX_CONTENT_SIZE
OverBudget(totalSize, section) == totalSize + section > MAX_CONTENT_SIZE

\* mutant: a file that does not fit is passed over and the loop goes on
RECURSIVE AddFilesGoesOn(_, _, _, _)
AddFilesGoesOn(fs, i, c, totalSize) ==
    IF i > Len(fs) THEN c
    ELSE IF Skips(fs[i]) THEN AddFilesGoesOn(fs, i + 1, c, totalSize)
    ELSE IF OverBudget(totalSize, FileSection(fs[i]))
         THEN AddFilesGoesOn(fs, i + 1, Append(c, NoticePart), totalSize)
    ELSE AddFilesGoesOn(fs, i + 1,
                        Append(c, Part("file", i, FileSection(fs[i]))),
                        totalSize + FileSection(fs[i]))

\* the for loop over assets.files, from file i on, with c the content so far
RECURSIVE AddFiles(_, _, _, _)
AddFiles(fs, i, c, totalSize) ==
    IF i > Len(fs) THEN c
    ELSE IF Skips(fs[i]) THEN AddFiles(fs, i + 1, c, totalSize)
    ELSE IF OverBudget(totalSize, FileSection(fs[i]))
         THEN Append(c, NoticePart)
    ELSE AddFiles(fs, i + 1, Append(c, Part("file", i, FileSection(fs[i]))),
                  totalSize + FileSection(fs[i]))

\* what precedes the file sections: the header, the directory listing if it
\* is not the empty string, the heading of the files
Preamble(assets) ==
    <<HeaderPart>>
    \o (IF assets.directoryListing # 0
        THEN <<DirectoryPart(assets.directoryListing)>> ELSE <<>>)
    \o <<FilesPart>>

buildContentPrompt(assets) ==
    LET c == Preamble(assets)
    IN  AddFiles(assets.files, 1, c, StringLength(c))

\* buildContentPrompt returns
BuildContentPrompt ==
    /\ promptPc = "called"
    /\ promptPc' = "returned"
    /\ content' = buildContentPrompt(promptAssets)
    /\ UNCHANGED promptAssets
    /\ UNCHANGED <<courseVars, fileVars, genVars, parseVars, cliVars,
                   otherVars>>

\* ------------------------------------------------------------ parseFileAssets
\* A text is a sequence of tokens: single characters, the words "File:",
\* "Directory List" and "Files", and FD, a run of sixteen '='.
FD == "================"

FILE_DELIMITER == <<FD>>

\* sixty-four '='
SECTION_DELIMITER == <<FD, FD, FD, FD>>

\* what String.prototype.trim removes, among the tokens
WhiteSpace == {"\n", "\r", " "}

\* content.replace(/\r\n/g, "\n")
RECURSIVE replaceCRLF(_)
replaceCRLF(s) ==
    IF s = <<>> THEN <<>>
    ELSE IF Len(s) >= 2 /\ s[1] = "\r" /\ s[2] = "\n"
         THEN <<"\n">> \o replaceCRLF(SubSeq(s, 3, Len(s)))
    ELSE <<Head(s)>> \o replaceCRLF(Tail(s))

RECURSIVE trimStart(_)
trimStart(s) ==
    IF s # <<>> /\ Head(s) \in WhiteSpace THEN trimStart(Tail(s)) ELSE s

RECURSIVE trimEnd(_)
trimEnd(s) ==
    IF s # <<>> /\ s[Len(s)] \in WhiteSpace
    THEN trimEnd(SubSeq(s, 1, Len(s) - 1)) ELSE s

\* String.prototype.trim
trim(s) == trimEnd(trimStart(s))

\* d occurs in s at index i
OccursAt(s, i, d) ==
    /\ i >= 1
    /\ i + Len(d) - 1 <= Len(s)
    /\ SubSeq(s, i, i + Len(d) - 1) = d

\* the first index from `from` on at which d occurs in s, 0 if there is none
indexOf(s, d, from) ==
    LET at == {i \in from..Len(s) : OccursAt(s, i, d)}
    IN  IF at = {} THEN 0 ELSE Min(at)

\* s.split(d), d a non-empty text
RECURSIVE split(_, _)
split(s, d) ==
    LET i == indexOf(s, d, 1)
    IN  IF i = 0 THEN <<s>>
        ELSE <<SubSeq(s, 1, i - 1)>> \o split(SubSeq(s, i + Len(d), Len(s)), d)

\* sections.join(d)
RECURSIVE join(_, _)
join(sections, d) ==
    IF sections = <<>> THEN <<>>
    ELSE IF Len(sections) = 1 THEN sections[1]
    ELSE sections[1] \o d \o join(Tail(sections), d)

\* The for loop over the sections, from section i on, with dl the directory
\* listing found so far. sections[i + 1] is truthy when it exists and is not
\* the empty string.
RECURSIVE FindSections(_, _, _)
FindSections(sections, i, dl) ==
    IF i > Len(sections)
    THEN [directoryListing |-> dl, filesSection |-> <<>>]
    ELSE LET section == trim(sections[i])
             next == i + 1 <= Len(sections) /\ sections[i + 1] # <<>>
             dl2 == IF section = <<"Directory List">> /\ next
                    THEN trim(sections[i + 1]) ELSE dl
         IN  IF section = <<"Files">> /\ next
             THEN [directoryListing |-> dl2,
                   filesSection |->
                       join(SubSeq(sections, i + 1, Len(sections)),
                            SECTION_DELIMITER)]
             ELSE FindSections(sections, i + 1, dl2)

\* the closing quote of the path whose opening quote is at index i - 1
ClosingQuote(s, i) == indexOf(s, <<"\"">>, i)

\* FILE_PATTERN up to its second group matches at index i:
\* ================\nFile: "([^"]+)"\n================\n
HeaderAt(s, i) ==
    /\ OccursAt(s, i, <<FD, "\n", "File:", " ", "\"">>)
    /\ ClosingQuote(s, i + 5) > i + 5
    /\ OccursAt(s, ClosingQuote(s, i + 5), <<"\"", "\n", FD, "\n">>)

\* mutant: the content ends at any line of sixteen '='
LookaheadAtAnyDelimiter(s, e) ==
    e = Len(s) + 1 \/ OccursAt(s, e, <<"\n", FD, "\n">>)

\* (?=\n================\nFile:|$) holds at index e
LookaheadAt(s, e) ==
    e = Len(s) + 1 \/ OccursAt(s, e, <<"\n", FD, "\n", "File:">>)

\* /[/\\]/
PathSeparators == {"/", "\\"}

\* s.split(sep) for a separator of one character out of seps
RECURSIVE splitChars(_, _)
splitChars(s, seps) ==
    LET at == {i \in 1..Len(s) : s[i] \in seps}
    IN  IF at = {} THEN <<s>>
        ELSE <<SubSeq(s, 1, Min(at) - 1)>>
             \o splitChars(SubSeq(s, Min(at) + 1, Len(s)), seps)

\* array.pop()
pop(a) == a[Len(a)]

\* String.prototype.toLowerCase, over the characters of BlobPaths
lowerChar(ch) ==
    CASE ch = "Y" -> "y"
      [] ch = "M" -> "m"
      [] ch = "D" -> "d"
      [] ch = "K" -> "k"
      [] OTHER -> ch

toLowerCaseChars(s) == [i \in 1..Len(s) |-> lowerChar(s[i])]

\* filePath.split(/[/\\]/).pop() || filePath
Filename(filePath) ==
    LET last == pop(splitChars(filePath, PathSeparators))
    IN  IF last # <<>> THEN last ELSE filePath

\* filename.includes(".") ? "." + filename.split(".").pop().toLowerCase() : ""
Extension(filename) ==
    IF \E i \in 1..Len(filename) : filename[i] = "."
    THEN <<".">> \o toLowerCaseChars(pop(splitChars(filename, {"."})))
    ELSE <<>>

\* the record pushed for one match: match[1] is s[p1..p2], match[2] s[c1..c2]
FileEntry(filePath, fileContent) ==
    [path |-> filePath,
     filename |-> Filename(filePath),
     extension |-> Extension(Filename(filePath)),
     content |-> trim(fileContent)]

\* the while loop over FILE_PATTERN.exec(filesSection), lastIndex being `from`
RECURSIVE ExecAll(_, _)
ExecAll(s, from) ==
    LET starts == {i \in from..Len(s) : HeaderAt(s, i)}
    IN  IF starts = {} THEN <<>>
        ELSE LET i == Min(starts)
                 q == ClosingQuote(s, i + 5)
                 c1 == q + 4
                 e == Min({j \in c1..(Len(s) + 1) : LookaheadAt(s, j)})
             IN  <<FileEntry(SubSeq(s, i + 5, q - 1), SubSeq(s, c1, e - 1))>>
                 \o ExecAll(s, e)

\* mutant: the file pattern runs over the whole text
parseFileAssetsWholeText(text) ==
    LET normalized == replaceCRLF(text)
        sections == split(normalized, SECTION_DELIMITER)
        found == FindSections(sections, 1, <<>>)
    IN  [directoryListing |-> found.directoryListing,
         files |-> ExecAll(normalized, 1)]

parseFileAssets(text) ==
    LET normalized == replaceCRLF(text)
        sections == split(normalized, SECTION_DELIMITER)
        found == FindSections(sections, 1, <<>>)
    IN  [directoryListing |-> found.directoryListing,
         files |-> ExecAll(found.filesSection, 1)]

\* The blob of fileassets.txt as the format describes it, written with the
\* line ending eol: a preamble, the Directory List section, the Files marker
\* (if `marker`) and one block per (path, content) pair.
FileBlock(eol, pair) ==
    eol \o <<FD>> \o eol \o <<"File:", " ", "\"">> \o pair.path \o <<"\"">>
    \o eol \o <<FD>> \o eol \o pair.content \o eol

RECURSIVE FileBlocks(_, _)
FileBlocks(eol, pairs) ==
    IF pairs = <<>> THEN <<>>
    ELSE FileBlock(eol, Head(pairs)) \o FileBlocks(eol, Tail(pairs))

Blob(src) ==
    <<"t">> \o src.eol \o src.eol
    \o SECTION_DELIMITER \o src.eol \o <<"Directory List">> \o src.eol
    \o SECTION_DELIMITER \o src.eol \o src.eol \o src.listing \o src.eol
    \o src.eol
    \o (IF src.marker
        THEN SECTION_DELIMITER \o src.eol \o <<"Files">> \o src.eol
             \o SECTION_DELIMITER \o src.eol
        ELSE <<>>)
    \o FileBlocks(src.eol, src.pairs)

\* parseFileAssets returns
ParseFileAssets ==
    /\ parsePc = "called"
    /\ parsePc' = "returned"
    /\ parsed' = parseFileAssets(blobContent)
    /\ UNCHANGED <<blobSource, blobContent>>
    /\ UNCHANGED <<courseVars, fileVars, genVars, promptVars, cliVars,
                   otherVars>>

\* ----------------------------------------------------------------------- main
\* cliArgs.inputs holds, per input path, which asset files its directory has;
\* cliArgs.ccg is "absent", "known" (findSkill finds a skill) or "unknown";
\* cliArgs.workers is the text given with --workers.

\* a --workers text: a decimal number `lead` followed by `tail`
NumberArg(lead, tail) == [kind |-> "number", lead |-> lead, tail |-> tail]

\* no --workers option, the empty text, a text that starts with no number
OtherArg(kind) == [kind |-> kind, lead |-> 0, tail |-> ""]

\* a JavaScript number: NaN, or an integer
Number(value) == [nan |-> FALSE, value |-> value]

NaN == [nan |-> TRUE, value |-> 0]

\* parseInt(text, 10): the leading decimal number, whatever follows it
parseInt(arg) == IF arg.kind = "number" THEN Number(arg.lead) ELSE NaN

\* values.workers ? parseInt(values.workers, 10) : 3
Workers(arg) ==
    IF arg.kind \in {"absent", "empty"} THEN Number(DEFAULT_WORKERS)
    ELSE parseInt(arg)

\* isNaN(workers) || workers < 1
InvalidWorkers(workers) == workers.nan \/ workers.value < 1

\* await Bun.file(path.join(resolved, "fileassets.txt")).exists()
AssetsFileExists(input) == input.fileassets

\* loadFileAssets: !(await Bun.file(`${coursePath}/fileassets_optimized.txt`)
\* .exists()), on which it throws "fileassets_optimized.txt not found"
AssetsFileNotFound(input) == ~input.optimized

\* process.exit(code)
Exit(code) ==
    /\ cliPc' = "exited"
    /\ exitStatus' = code
    /\ UNCHANGED <<cliArgs, cliIndex>>
    /\ UNCHANGED <<courseVars, fileVars, genVars, promptVars, parseVars,
                   otherVars>>

\* main up to its first await: the required arguments
MainStarts ==
    /\ cliPc = "start"
    /\ IF Len(cliArgs.inputs) = 0 \/ cliArgs.ccg = "absent"
       THEN Exit(1)
       ELSE /\ cliPc' = "exists"
            /\ cliIndex' = 1
            /\ UNCHANGED <<cliArgs, exitStatus>>
            /\ UNCHANGED <<courseVars, fileVars, genVars, promptVars,
                           parseVars, otherVars>>

\* assetsFile.exists() resolved for the input path at cliIndex
AssetsFileChecked ==
    /\ cliPc = "exists"
    /\ IF ~AssetsFileExists(cliArgs.inputs[cliIndex])
       THEN Exit(1)
       ELSE /\ cliPc' = IF cliIndex < Len(cliArgs.inputs)
                        THEN "exists" ELSE "validateSkill"
            /\ cliIndex' = IF cliIndex < Len(cliArgs.inputs)
                           THEN cliIndex + 1 ELSE cliIndex
            /\ UNCHANGED <<cliArgs, exitStatus>>
            /\ UNCHANGED <<courseVars, fileVars, genVars, promptVars,
                           parseVars, otherVars>>

\* validateSkill is over: it exits when findSkill found nothing, else main
\* reads the worker count and calls runWorkerPool, which runs to its first
\* await (getTUI)
SkillValidated ==
    /\ cliPc = "validateSkill"
    /\ IF cliArgs.ccg # "known" \/ InvalidWorkers(Workers(cliArgs.workers))
       THEN Exit(1)
       ELSE /\ cliPc' = "pool"
            /\ courses' = Len(cliArgs.inputs)
            /\ maxWorkers' = Workers(cliArgs.workers).value
            /\ queue' = [i \in 1..Len(cliArgs.inputs) |-> i]
            /\ poolPc' = "getTUI"
            /\ UNCHANGED <<cliArgs, cliIndex, exitStatus>>
            /\ UNCHANGED <<variant, inProgress, nextWorkerId, raceWinner, jpc,
                           coursePath, promise, result, total, logger,
                           tuiWorkers, tuiStopped, sinkLog, genCalls,
                           generationResult>>
            /\ UNCHANGED <<fileVars, genVars, promptVars, parseVars,
                           otherVars>>

\* mutant: a run with a failed course exits with 1
MainExitStatusCountsFailures(threw, failures) ==
    IF threw \/ failures THEN 1 ELSE 0

\* The status the process ends with once runWorkerPool is over: main returns
\* and the process ends on its own (0), or main().catch calls process.exit(1).
\* `failures`: a course job of the run failed; main does not look at it.
MainExitStatus(threw, failures) == IF threw THEN 1 ELSE 0

\* a course job of the run did not end in a successful generation
SomeJobFailed ==
    \E w \in WorkerIds : tuiWorkers[w].status = "error" \/ result[w] = "exception"

\* runWorkerPool is over: main returns, or main().catch runs
MainEnds ==
    /\ cliPc = "pool"
    /\ poolPc \in {"returned", "threw"}
    /\ Exit(MainExitStatus(poolPc = "threw", SomeJobFailed))

\* -------------------------------------------------------------------- TUI
\* everything but the TUI object
notTuiVars ==
    <<variant, courses, maxWorkers, poolPc, queue, inProgress, nextWorkerId,
      raceWinner, jpc, coursePath, promise, result, total, logger, tuiStopped,
      sinkLog, genCalls, generationResult, fileVars, genVars, promptVars,
      parseVars, cliVars, loggerVars, fileEntry, oldFiles>>

TuiIds == 1..MaxTuiIds

\* how init() can go: it starts the renderer, createCliRenderer rejects, or a
\* later statement of the try block throws (this.renderer is set by then)
InitEnds == {"started", "createCliRenderer threw", "start threw"}

\* mutant: the catch block leaves enabled as it is
InitEnabledAlways(how) == TRUE

\* this.enabled after init(): the catch block sets it to false
InitEnabled(how) == how = "started"

\* this.renderer after init()
InitRenderer(how) == how # "createCliRenderer threw"

\* await tuiInstance.init() comes back; it never rejects
TuiInitEnds ==
    /\ tuiPc = "init"
    /\ \E how \in InitEnds :
        /\ tuiInit' = how
        /\ enabled' = InitEnabled(how)
        /\ renderer' = InitRenderer(how)
    /\ tuiPc' = "ready"
    /\ UNCHANGED <<tuiWorkers, workerRows, tuiThrew>>
    /\ UNCHANGED notTuiVars

\* Math.round(percentage * width), width = 30
Filled(current, totalFiles) ==
    IF totalFiles > 0 THEN (60 * current + totalFiles) \div (2 * totalFiles)
    ELSE 0

\* renderProgressBar: String.repeat throws a RangeError for a negative count
RenderProgressBarThrows(current, totalFiles) ==
    Filled(current, totalFiles) < 0 \/ 30 - Filled(current, totalFiles) < 0

\* a method of the TUI is called: the workers map after it, whether a row is
\* made for id, and whether the call throws
TuiMethod(tw, id, addsRow, throws) ==
    /\ tuiPc = "ready"
    /\ ~tuiThrew
    /\ tuiWorkers' = tw
    /\ workerRows' = IF addsRow THEN workerRows \cup {id} ELSE workerRows
    /\ tuiThrew' = throws
    /\ UNCHANGED <<tuiPc, tuiInit, enabled, renderer>>
    /\ UNCHANGED notTuiVars

\* the row of worker id is drawn: if (this.enabled) { row = ...; if (row) ...
DrawsRow(id) == enabled /\ id \in workerRows

TuiAddWorker(id, totalFiles) ==
    TuiMethod(addWorker(tuiWorkers, id, totalFiles), id,
              enabled /\ renderer,
              enabled /\ renderer /\ RenderProgressBarThrows(0, totalFiles))

TuiUpdateWorker(id, count) ==
    TuiMethod(updateWorker(tuiWorkers, id, count), id, FALSE,
              /\ tuiWorkers[id].status # "absent"
              /\ DrawsRow(id)
              /\ RenderProgressBarThrows(count, tuiWorkers[id].total))

TuiCompleteWorker(id, success) ==
    TuiMethod(completeWorker(tuiWorkers, id, success), id, FALSE,
              /\ tuiWorkers[id].status # "absent"
              /\ DrawsRow(id)
              /\ RenderProgressBarThrows(tuiWorkers[id].total,
                                         tuiWorkers[id].total))

TuiSetGenerating(id) ==
    TuiMethod(setGenerating(tuiWorkers, id), id, FALSE, FALSE)

TuiSetGenerationComplete(id) ==
    TuiMethod(setGenerationComplete(tuiWorkers, id), id, FALSE, FALSE)

\* ------------------------------------------------------------ Logger calls
NoCalls == [success |-> 0, warn |-> 0, error |-> 0]

CallCount == logCalls.success + logCalls.warn + logCalls.error

\* mutant: the status looks at the warnings first
RunLogStatusWarningsFirst(l) ==
    IF l.warnings > 0 THEN "completed_with_warnings"
    ELSE IF l.filesFailed > 0 THEN "failed" ELSE "success"

\* getRunLog: status
RunLogStatus(l) ==
    IF l.filesFailed > 0 THEN "failed"
    ELSE IF l.warnings > 0 THEN "completed_with_warnings" ELSE "success"

\* getRunLog: the lists are given by their lengths
getRunLog(l) ==
    [status |-> RunLogStatus(l),
     files_processed |-> l.filesProcessed,
     files_failed |-> l.filesFailed,
     warnings |-> l.warnings,
     errors |-> l.errors]

LoggerCalled(lg, calls) ==
    /\ CallCount < MaxLogCalls
    /\ runLogger' = lg
    /\ logCalls' = calls
    /\ UNCHANGED <<courseVars, fileVars, genVars, promptVars, parseVars,
                   cliVars, tuiVars, fileEntry, oldFiles>>

SuccessCalled ==
    LoggerCalled(LoggerSuccess(runLogger), [logCalls EXCEPT !.success = @ + 1])

WarnCalled ==
    LoggerCalled(LoggerWarn(runLogger), [logCalls EXCEPT !.warn = @ + 1])

ErrorCalled ==
    LoggerCalled(LoggerError(runLogger), [logCalls EXCEPT !.error = @ + 1])

\* --------------------------------------------------------- specification
InitCourses ==
    /\ variant \in {"extract", "direct"}
    /\ courses \in 1..MaxCourses
    /\ maxWorkers \in 1..MaxWorkers
    /\ poolPc = "getTUI"
    /\ queue = [i \in 1..courses |-> i]

IdleCourses ==
    /\ variant = "extract"
    /\ courses = 0
    /\ maxWorkers = 1
    /\ poolPc = "idle"
    /\ queue = <<>>

NoJobs ==
    /\ inProgress = {}
    /\ nextWorkerId = 1
    /\ raceWinner = 0
    /\ jpc = [w \in WorkerIds |-> "idle"]
    /\ coursePath = [w \in WorkerIds |-> 0]
    /\ promise = [w \in WorkerIds |-> "none"]
    /\ result = [w \in WorkerIds |-> "none"]
    /\ total = [w \in WorkerIds |-> 0]
    /\ logger = [w \in WorkerIds |-> NewLogger]
    /\ tuiWorkers = [w \in WorkerIds |-> NoStatus]
    /\ tuiStopped = FALSE
    /\ sinkLog = [w \in WorkerIds |-> <<>>]
    /\ genCalls = [w \in WorkerIds |-> 0]
    /\ generationResult = [w \in WorkerIds |-> "none"]

NoTasks ==
    /\ fileInProgress = {}
    /\ fileRace = 0
    /\ task = [f \in FileIds |-> IF f <= files THEN "queued" ELSE "none"]
    /\ fileResult = [f \in FileIds |-> "none"]
    /\ results = [f \in FileIds |-> 0]
    /\ processed = 0
    /\ fileLogger = NewLogger
    /\ progress = <<>>

\* file names that are all different, with an extension of the class
FileEntries(ext) ==
    [f \in FileIds |->
        FileRecord(1, f, CHOOSE e \in FileExtensions :
                             ExtensionClass(e) = ext[f])]

InitFiles ==
    /\ files \in 0..MaxPoolFiles
    /\ extension \in [FileIds -> Extensions]
    /\ \A f \in FileIds : f > files => extension[f] = "media"
    /\ fileEntry = FileEntries(extension)
    /\ filePc = "called"
    /\ fileQueue = [i \in 1..files |-> i]
    /\ NoTasks

\* the file records of one course: records with different paths
NamedFiles == [dir : 1..MaxDirs, stem : 1..MaxStems,
               ext : {".md", ".pdf", ".docx", ".xyz"}]

InitNamedFiles ==
    /\ files \in 0..MaxNamedFiles
    /\ \E entries \in [1..files -> NamedFiles] :
        /\ \A f, g \in 1..files : f # g => entries[f] # entries[g]
        /\ fileEntry = [f \in FileIds |->
                            IF f <= files THEN entries[f]
                            ELSE FileRecord(1, 1, ".md")]
    /\ extension = [f \in FileIds |-> ExtensionClass(fileEntry[f].ext)]
    /\ filePc = "called"
    /\ fileQueue = [i \in 1..files |-> i]
    /\ NoTasks

IdleFiles ==
    /\ files = 0
    /\ extension = [f \in FileIds |-> "media"]
    /\ fileEntry = FileEntries(extension)
    /\ filePc = "idle"
    /\ fileQueue = <<>>
    /\ NoTasks

NoGeneration ==
    /\ tempPromptFile = FALSE
    /\ invocations = 0
    /\ exitCode = 0
    /\ stdout = ""
    /\ stderr = ""
    /\ createdFiles = 0
    /\ debugLog = "absent"
    /\ genResult = NoResult

\* runGenerator was called and awaits the text of the skill file; outputDir
\* may hold .md files of an earlier run
InitGen ==
    /\ genPc = "skill"
    /\ genAssets \in 0..MaxGenFiles
    /\ mdFiles \in 0..MaxArtifacts
    /\ oldFiles = mdFiles
    /\ NoGeneration

IdleGen ==
    /\ genPc = "idle"
    /\ genAssets = 0
    /\ mdFiles = 0
    /\ oldFiles = 0
    /\ NoGeneration

\* the sequences over S of length n at most
SeqsUpTo(S, n) == UNION {[1..k -> S] : k \in 0..n}

\* the file records handed to buildContentPrompt: a text file, text files
\* with an upper-case extension, binary media; a small content, one that
\* fills half the budget, one that fills it alone to the last character, one
\* that is one character too long
PromptFilename == 8

ExactFit ==
    MAX_CONTENT_SIZE - (HEADER + FILES_HEADING)
    - (FILE_HEADING + PromptFilename + FENCE_OPEN + FENCE_CLOSE)

PromptFileRecords ==
    [extension : {".md", ".mp4", ".MP4", ".zip"},
     filename : {PromptFilename},
     content : {100, MAX_CONTENT_SIZE \div 2, ExactFit, ExactFit + 1}]

\* no directory listing, a short one, one as long as the budget
PromptListings == {0, 1000, MAX_CONTENT_SIZE}

EmptyPrompt == [directoryListing |-> 0, files |-> <<>>]

InitPrompt ==
    /\ promptPc = "called"
    /\ promptAssets \in [directoryListing : PromptListings,
                         files : SeqsUpTo(PromptFileRecords, MaxPromptFiles)]
    /\ content = <<>>

IdlePrompt ==
    /\ promptPc = "idle"
    /\ promptAssets = EmptyPrompt
    /\ content = <<>>

\* the paths of the blob: '/' and '\' as separators, an upper-case extension,
\* no extension, two dots, a dot in a directory name and at the start of the
\* file name
BlobPaths ==
    {<<"/", "a", "/", "x", ".", "p", "y">>,
     <<"K", ":", "\\", "a", "\\", "Y", ".", "M", "D">>,
     <<"/", "a", "/", "n">>,
     <<"x", ".", "t", ".", "g">>,
     <<"/", "a", ".", "b", "/", ".", "e">>}

\* the contents of the blob: one word, nothing, white space around two
\* lines, two lines with a Windows line ending, a line of sixteen '='
BlobContents ==
    {<<"p">>,
     <<>>,
     <<" ", "a", "\n", "b", "\n", "\n">>,
     <<"a", "\r", "\n", "b">>,
     <<"a", "\n", FD, "\n", "b">>}

BlobPairs == [path : BlobPaths, content : BlobContents]

BlobListings == {<<>>, <<"d", "\n", " ", "e">>}

BlobSources ==
    [eol : {<<"\n">>, <<"\r", "\n">>},
     listing : BlobListings,
     marker : BOOLEAN,
     pairs : SeqsUpTo(BlobPairs, MaxBlobFiles)]

EmptyAssets == [directoryListing |-> <<>>, files |-> <<>>]

InitParse ==
    /\ parsePc = "called"
    /\ blobSource \in BlobSources
    /\ blobContent = Blob(blobSource)
    /\ parsed = EmptyAssets

IdleParse ==
    /\ parsePc = "idle"
    /\ blobSource = [eol |-> <<"\n">>, listing |-> <<>>, marker |-> FALSE,
                     pairs |-> <<>>]
    /\ blobContent = <<>>
    /\ parsed = EmptyAssets

\* what the directory of an input path holds
InputDirs == [fileassets : BOOLEAN, optimized : BOOLEAN]

WorkerArgs ==
    {OtherArg(k) : k \in {"absent", "empty", "text"}}
    \cup {NumberArg(l, t) : l \in (-1)..MaxWorkers, t \in {"", ".5", "x"}}

\* main was started with some arguments; --help and --list were not given
InitCli ==
    /\ cliPc = "start"
    /\ cliArgs \in [inputs : SeqsUpTo(InputDirs, MaxInputs),
                    ccg : {"absent", "known", "unknown"},
                    workers : WorkerArgs]
    /\ cliIndex = 0
    /\ exitStatus = 0

\* main has called runWorkerPool: every check of the arguments has passed
CliAtPool ==
    /\ cliPc = "pool"
    /\ cliArgs = [inputs |-> [i \in 1..courses |->
                                 [fileassets |-> TRUE, optimized |-> TRUE]],
                  ccg |-> "known",
                  workers |-> NumberArg(maxWorkers, "")]
    /\ cliIndex = courses
    /\ exitStatus = 0

IdleCli ==
    /\ cliPc = "idle"
    /\ cliArgs = [inputs |-> <<>>, ccg |-> "absent",
                  workers |-> OtherArg("absent")]
    /\ cliIndex = 0
    /\ exitStatus = 0

NoTui ==
    /\ tuiInit = "none"
    /\ enabled = TRUE
    /\ renderer = FALSE
    /\ workerRows = {}
    /\ tuiThrew = FALSE

\* getTUI has made the TUI object and awaits its init()
InitTui == tuiPc = "init" /\ NoTui

IdleTui == tuiPc = "idle" /\ NoTui

\* a Logger as its constructor leaves it
InitLogger == runLogger = NewLogger /\ logCalls = NoCalls

IdleOther == IdleTui /\ InitLogger

IdleAux == IdlePrompt /\ IdleParse /\ IdleCli /\ IdleOther

Init == InitCourses /\ NoJobs /\ IdleFiles /\ IdleGen /\ IdlePrompt
        /\ IdleParse /\ CliAtPool /\ IdleOther

FileInit == IdleCourses /\ NoJobs /\ InitFiles /\ IdleGen /\ IdleAux

GenInit == IdleCourses /\ NoJobs /\ IdleFiles /\ InitGen /\ IdleAux

PromptInit ==
    IdleCourses /\ NoJobs /\ IdleFiles /\ IdleGen /\ InitPrompt /\ IdleParse
    /\ IdleCli /\ IdleOther

ParseInit ==
    IdleCourses /\ NoJobs /\ IdleFiles /\ IdleGen /\ IdlePrompt /\ InitParse
    /\ IdleCli /\ IdleOther

CliInit ==
    IdleCourses /\ NoJobs /\ IdleFiles /\ IdleGen /\ IdlePrompt /\ IdleParse
    /\ InitCli /\ IdleOther

NamedFileInit == IdleCourses /\ NoJobs /\ InitNamedFiles /\ IdleGen /\ IdleAux

TuiInit ==
    IdleCourses /\ NoJobs /\ IdleFiles /\ IdleGen /\ IdlePrompt /\ IdleParse
    /\ IdleCli /\ InitTui /\ InitLogger

\* a Logger has no step to wait for: its first state is the constructor's
LoggerInit == IdleCourses /\ NoJobs /\ IdleFiles /\ IdleGen /\ IdleAux

JobNext(w) ==
    \/ LoadFileAssetsThrows(w)
    \/ LoadFileAssetsReturns(w)
    \/ GitkeepThrows(w)
    \/ GitkeepWritten(w)
    \/ ProcessFilesWithPoolReturns(w)
    \/ SaveLogThrows(w)
    \/ SaveLogWritten(w)
    \/ RunGeneratorReturns(w)

Next ==
    \/ PoolStart
    \/ PoolObserve
    \/ PoolTimer
    \/ PoolReturn
    \/ \E w \in WorkerIds : JobNext(w)

FileNext ==
    \/ FilePoolStart
    \/ FilePoolObserve
    \/ \E f \in FileIds : FileSettlesAtOnce(f)
    \/ \E f \in FileIds : FileExtracted(f)

PromptNext == BuildContentPrompt

ParseNext == ParseFileAssets

CliNext ==
    \/ MainStarts
    \/ AssetsFileChecked
    \/ SkillValidated

TuiNext ==
    \/ TuiInitEnds
    \/ \E id \in TuiIds, totalFiles \in 0..MaxFiles :
            TuiAddWorker(id, totalFiles)
    \/ \E id \in TuiIds, count \in 0..MaxCount : TuiUpdateWorker(id, count)
    \/ \E id \in TuiIds, success \in BOOLEAN : TuiCompleteWorker(id, success)
    \/ \E id \in TuiIds : TuiSetGenerating(id)
    \/ \E id \in TuiIds : TuiSetGenerationComplete(id)

LoggerNext == SuccessCalled \/ WarnCalled \/ ErrorCalled

GenNext ==
    \/ SkillReadThrows
    \/ SkillRead
    \/ TempWriteThrows
    \/ TempWritten
    \/ OutputDirThrows
    \/ OutputDirWritten
    \/ ClaudeExits
    \/ RmDone
    \/ ScanThrows
    \/ ScanDone
    \/ DebugLogThrows
    \/ DebugLogWritten

\* runWorkerPool over its course jobs
Spec == Init /\ [][Next]_vars

\* one call of processFilesWithPool
FileSpec == FileInit /\ [][FileNext]_vars

\* one call of runGenerator
GenSpec == GenInit /\ [][GenNext]_vars

\* the course jobs, or one call of runGenerator
GenerationSpec == (Init \/ GenInit) /\ [][Next \/ GenNext]_vars

\* one call of buildContentPrompt
PromptSpec == PromptInit /\ [][PromptNext]_vars

\* one call of parseFileAssets
ParseSpec == ParseInit /\ [][ParseNext]_vars

\* main up to its call of runWorkerPool
CliSpec == CliInit /\ [][CliNext]_vars

\* main from its call of runWorkerPool to the end of the process
RunSpec == Init /\ [][Next \/ MainEnds]_vars

\* one call of processFilesWithPool on the file records of a course
NamedFileSpec == NamedFileInit /\ [][FileNext]_vars

\* one TUI object and the calls of its methods
TuiSpec == TuiInit /\ [][TuiNext]_vars

\* one Logger object and the calls of its methods
LoggerSpec == LoggerInit /\ [][LoggerNext]_vars

\* either pool, on its own
PoolsSpec == (Init \/ FileInit) /\ [][Next \/ FileNext]_vars

\* The event loop runs every continuation that is due. An external process
\* (the generator, an extraction script) may never come back: no fairness for
\* RunGeneratorReturns and ProcessFilesWithPoolReturns.
Fairness ==
    /\ WF_vars(PoolStart)
    /\ WF_vars(PoolObserve)
    /\ WF_vars(PoolTimer)
    /\ WF_vars(PoolReturn)
    /\ \A w \in WorkerIds :
        /\ WF_vars(LoadFileAssetsThrows(w) \/ LoadFileAssetsReturns(w))
        /\ WF_vars(GitkeepThrows(w) \/ GitkeepWritten(w))
        /\ WF_vars(SaveLogThrows(w) \/ SaveLogWritten(w))

LiveSpec == Spec /\ Fairness

\* ------------------------------------------------------------------ claims
Started(w) == jpc[w] # "idle"

Terminal(w) == jpc[w] = "done"

InFlight == {w \in WorkerIds : Started(w) /\ ~Terminal(w)}

\* the jobs whose promise the pool still holds: their result and Logger exist
Held(w) == w \in inProgress

TasksRunning == {f \in FileIds : task[f] = "running"}

\* C1: at every point of every interleaving, the number of course jobs that
\* have been started and have not reached a terminal state is at most the
\* worker limit W.
C1_InFlightAtMostLimit == Cardinality(InFlight) <= maxWorkers

\* C1 witness: the limit is reached (two jobs in flight, limit 2) while a
\* course is still queued.
C1_Witness ==
    /\ maxWorkers = 2
    /\ Cardinality(InFlight) = 2
    /\ Len(queue) > 0

\* C2: runWorkerPool is past its loop (waits for the final render, stops the
\* display, has returned) only when the queue is empty, every course has been
\* started and every started job is terminal, none of them still held.
C2_ReturnsOnlyWhenAllDone ==
    (poolPc \in {"sleep", "stopTUI", "returned"} \/ tuiStopped) =>
        /\ queue = <<>>
        /\ inProgress = {}
        /\ InFlight = {}
        /\ \A c \in 1..courses : \E w \in WorkerIds :
                coursePath[w] = c /\ Terminal(w)

\* C2 witness: the pool returned and stopped the display after three courses
\* that had to share two workers.
C2_Witness ==
    /\ poolPc = "returned"
    /\ tuiStopped
    /\ courses = 3
    /\ maxWorkers = 2

\* C3: under fair scheduling, if every course job that is started reaches a
\* terminal state, then runWorkerPool returns; read the other way, the pool
\* fails to return only when some started job never terminates.
C3_PoolReturnsIfJobsTerminate ==
    (\A w \in WorkerIds : (Started(w) ~> Terminal(w)))
        => <>(poolPc = "returned")

\* C3 witness: the pool returned with one worker after three courses, one of
\* which went through generation.
C3_Witness ==
    /\ poolPc = "returned"
    /\ courses = 3
    /\ maxWorkers = 1
    /\ \E w \in WorkerIds : tuiWorkers[w].status = "complete"

\* C4: a failing course job stops nothing: no job's promise rejects and the
\* pool never throws, and once the pool is past its loop every course has been
\* started and has reached its own terminal state.
C4_CourseFailureIsolated ==
    /\ poolPc # "threw"
    /\ \A w \in WorkerIds : promise[w] # "rejected"
    /\ poolPc \in {"sleep", "stopTUI", "returned"} =>
         \A c \in 1..courses : \E w \in WorkerIds :
                coursePath[w] = c /\ Terminal(w)

\* C4 witness: three courses, limit 2, the second with zero files: the pool
\* returned with two successes and one failure.
C4_Witness ==
    /\ poolPc = "returned"
    /\ variant = "direct"
    /\ courses = 3
    /\ maxWorkers = 2
    /\ tuiWorkers[1].status = "complete"
    /\ tuiWorkers[2].status = "error" /\ tuiWorkers[2].total = 0
    /\ tuiWorkers[3].status = "complete"

\* C5 (as claimed): when processFilesWithPool returns, its results hold
\* exactly one outcome for every submitted file record.
C5_OneResultPerFile ==
    filePc = "returned" => \A f \in 1..files : results[f] = 1

\* C6: at every point the number of extraction tasks started and not yet
\* completed is at most SUBAGENT_POOL_SIZE, whatever the number of files.
C6_TasksAtMostPoolSize == Cardinality(TasksRunning) <= SUBAGENT_POOL_SIZE

\* C6 witness: more files than the pool size, the pool full and a file waiting.
C6_Witness ==
    /\ files > SUBAGENT_POOL_SIZE
    /\ Cardinality(TasksRunning) = SUBAGENT_POOL_SIZE
    /\ Len(fileQueue) > 0

\* C7: the pool never throws, whatever a record's extraction ends with, and
\* when it returns every record has been started (or skipped) and every started
\* record has reached its own outcome.
C7_FileFailureIsolated ==
    /\ filePc # "threw"
    /\ \A f \in FileIds : fileResult[f] # "rejected"
    /\ filePc = "returned" =>
         \A f \in 1..files :
            \/ task[f] = "skipped"
            \/ /\ task[f] = "done"
               /\ fileResult[f] \in {"success", "failure", "failure_no_error"}

\* C7 witness: the pool returned after the first record failed while others
\* were in flight and one was queued, and the others ended with success.
C7_Witness ==
    /\ filePc = "returned"
    /\ files > SUBAGENT_POOL_SIZE
    /\ fileResult[1] = "failure"
    /\ extension[1] = "content"
    /\ \A f \in 2..files : fileResult[f] = "success"

\* C8: neither pool waits with a free slot: while runWorkerPool (or
\* processFilesWithPool) awaits Promise.race and no completion is there to be
\* observed, the queue is empty or the in-flight items are as many as the
\* limit; a completion that is observed is followed at once by the start of
\* the next queued item.
C8_WorkConserving ==
    /\ (poolPc = "race" /\ raceWinner = 0) =>
            (queue = <<>> \/ Cardinality(InFlight) = maxWorkers)
    /\ (filePc = "race" /\ fileRace = 0) =>
            (fileQueue = <<>>
                \/ Cardinality(TasksRunning) = SUBAGENT_POOL_SIZE)

\* C8 witness: the sixth file was started on the first completion, while four
\* of the first five files are still in flight.
C8_Witness ==
    /\ filePc = "race"
    /\ fileRace = 0
    /\ files = 6
    /\ task[6] = "running"
    /\ Cardinality(TasksRunning) = SUBAGENT_POOL_SIZE

\* the calls of the log after the first completeWorker
RECURSIVE AfterComplete(_)
AfterComplete(log) ==
    IF log = <<>> THEN <<>>
    ELSE IF Head(log).op = "completeWorker" THEN Tail(log)
    ELSE AfterComplete(Tail(log))

\* C9 (as claimed): a job that has returned has called completeWorker exactly
\* once, and no sink call for its id follows that call.
C9_CompletesExactlyOnce ==
    \A w \in WorkerIds :
        (Held(w) /\ Terminal(w)) =>
            /\ SeqCount(sinkLog[w], "completeWorker") = 1
            /\ AfterComplete(sinkLog[w]) = <<>>

\* the job parsed assets holding zero files
ZeroFiles(w) ==
    /\ sinkLog[w] # <<>>
    /\ Head(sinkLog[w]) = Call("addWorker", 0, TRUE)

\* C10: a course whose parsed assets hold zero files never has the generator
\* invoked, and it ends FAILED as a returned result: the promise is fulfilled,
\* the result is a failure and the sink shows the error state.
C10_ZeroFilesFailsWithoutGeneration ==
    \A w \in WorkerIds :
        ZeroFiles(w) =>
            /\ genCalls[w] = 0
            /\ jpc[w] # "generate"
            /\ Terminal(w) =>
                /\ promise[w] = "fulfilled"
                /\ result[w] \in {"zero_files", "extraction_failed",
                                  "exception"}
                /\ tuiWorkers[w].status = "error"

\* C10 witness: a job with zero files has returned its failure.
C10_Witness ==
    \E w \in WorkerIds :
        /\ ZeroFiles(w)
        /\ Terminal(w)
        /\ result[w] \in {"zero_files", "extraction_failed"}

\* C11: in the variant with an extraction phase, a job whose file pool
\* processed no file with success (files_processed = 0) never calls the
\* generator and ends FAILED: it returns a failure result.
C11_NothingExtractedFailsWithoutGeneration ==
    \A w \in WorkerIds :
        (variant = "extract" /\ Held(w) /\ logger[w].filesProcessed = 0) =>
            /\ genCalls[w] = 0
            /\ jpc[w] # "generate"
            /\ SeqCount(sinkLog[w], "setGenerating") = 0
            /\ Terminal(w) => result[w] \in {"extraction_failed", "exception"}

\* C11 witness: a course with a file, which the pool logged as failed, ended
\* with the failure of the extraction.
C11_Witness ==
    \E w \in WorkerIds :
        /\ variant = "extract"
        /\ Terminal(w)
        /\ total[w] > 0
        /\ logger[w].filesFailed > 0
        /\ logger[w].filesProcessed = 0
        /\ result[w] = "extraction_failed"
        /\ tuiWorkers[w].status = "error"

\* the claude process was started and has exited
Exited == invocations > 0 /\ genPc \in {"rm", "scan", "debuglog", "returned"}

\* C12 (as claimed): runGenerator reports success exactly when the process
\* exited with code 0 and the scan found at least one artifact; a non-zero
\* exit is a failure that tells the exit failure; a clean exit with a scan
\* that found nothing is a failure that says no files were generated; every
\* failure has filesGenerated empty and error set.
C12_SuccessIffExitZeroAndArtifacts ==
    genPc = "returned" =>
        /\ genResult.success <=>
                (Exited /\ exitCode = 0 /\ createdFiles >= 1)
        /\ (Exited /\ exitCode # 0) =>
                /\ ~genResult.success
                /\ Head(genResult.error) = "Claude CLI failed with exit code"
        /\ (Exited /\ exitCode = 0 /\ mdFiles = 0
                /\ genResult.error # <<"exception", "scan">>) =>
                /\ ~genResult.success
                /\ genResult.error = <<"No files were generated">>
        /\ ~genResult.success =>
                /\ genResult.filesGenerated = 0
                /\ genResult.error # <<>>

\* C13: for each course job the generator is called at most once, exactly once
\* when the job reaches the generating phase, and a call that came back (with a
\* failure or not) is not followed by another; inside runGenerator the claude
\* process is started at most once.
C13_GeneratorInvokedAtMostOnce ==
    /\ \A w \in WorkerIds :
        /\ genCalls[w] <= 1
        /\ genCalls[w] = SeqCount(sinkLog[w], "setGenerating")
        /\ jpc[w] = "generate" => genCalls[w] = 1
        /\ generationResult[w] # "none" => genCalls[w] = 1
    /\ invocations <= 1
    /\ genPc \in {"claude", "rm", "scan", "debuglog"} => invocations = 1

\* C13 witness: a job whose one call of the generator failed has returned.
C13_Witness ==
    \E w \in WorkerIds :
        /\ Terminal(w)
        /\ generationResult[w] = "failure"
        /\ result[w] = "generation_failed"
        /\ genCalls[w] = 1

\* C14 (as claimed): whenever runGenerator has returned, on whatever path, the
\* temporary prompt file it created is gone.
C14_TempPromptFileRemoved == genPc = "returned" => ~tempPromptFile

\* the scan of outputDir ended and found nothing after a clean exit
ZeroArtifactsPath ==
    /\ Exited
    /\ exitCode = 0
    /\ genPc \in {"debuglog", "returned"}
    /\ createdFiles = 0
    /\ genResult.error # <<"exception", "scan">>

\* C15: on the path of a clean exit with zero artifacts, runGenerator returns
\* only after the write of _generation_log.txt: the failure "No files were
\* generated" is returned with the file holding the process's output, and the
\* only other return of that path is the exception of that very write.
C15_DebugLogBeforeNoFilesFailure ==
    (ZeroArtifactsPath /\ genPc = "returned") =>
        /\ ~genResult.success
        /\ \/ genResult.error = <<"exception", "debuglog">>
           \/ /\ genResult.error = <<"No files were generated">>
              /\ debugLog # "absent"
              /\ stdout # "" => debugLog = stdout

\* C15 witness: the failure for no generated files was returned and the
\* diagnostic file holds the output of the process.
C15_Witness ==
    /\ genPc = "returned"
    /\ ZeroArtifactsPath
    /\ genResult.error = <<"No files were generated">>
    /\ stdout = "text"
    /\ debugLog = "text"

\* C16 (as claimed): every course job that has returned, failed ones
\* included, has written its run log (Logger.saveLog resolved) by then.
C16_LogSavedWhenJobReturns ==
    \A w \in WorkerIds :
        (Held(w) /\ Terminal(w)) => logger[w].saved >= 1

\* the job returned a FAILED outcome
Failed(w) ==
    /\ Terminal(w)
    /\ result[w] \in {"zero_files", "extraction_failed",
                      "generation_failed", "exception"}

\* C17 (as claimed): whenever a course job has ended FAILED, for whatever
\* reason and at whatever point, the sink's status of its slot is the error
\* state.
C17_FailureShownInSink ==
    \A w \in WorkerIds :
        (Held(w) /\ Failed(w)) => tuiWorkers[w].status = "error"

\* C18: an exception thrown at any await of a course job ends in the catch
\* block: in that same step the job returns the FAILED result, its promise is
\* fulfilled and one more entry is in the errors of its run log; no promise
\* handed to the pool is ever rejected.
C18_ExceptionCaughtAtJobBoundary ==
    /\ [](\A w \in WorkerIds : promise[w] # "rejected")
    /\ [][\A w \in WorkerIds :
            (result[w] # "exception" /\ result'[w] = "exception") =>
                /\ jpc'[w] = "done"
                /\ promise'[w] = "fulfilled"
                /\ logger'[w].errors = logger[w].errors + 1]_vars

\* C18 witness: a job that threw after it was registered with the sink has
\* returned its failure, with the error in its log.
C18_Witness ==
    \E w \in WorkerIds :
        /\ Terminal(w)
        /\ result[w] = "exception"
        /\ promise[w] = "fulfilled"
        /\ logger[w].errors >= 1
        /\ tuiWorkers[w].status = "error"

\* the processed counts of the updateWorker calls of a sink log, in order
RECURSIVE Reports(_)
Reports(log) ==
    IF log = <<>> THEN <<>>
    ELSE IF Head(log).op = "updateWorker"
         THEN <<Head(log).n>> \o Reports(Tail(log))
         ELSE Reports(Tail(log))

NonDecreasing(seq) ==
    \A i \in 1..Len(seq) : \A j \in i..Len(seq) : seq[i] <= seq[j]

CountOf(seq, n) == Cardinality({i \in 1..Len(seq) : seq[i] = n})

\* the count n was reported exactly once, by the last report
OnceAtEnd(seq, n) ==
    /\ seq # <<>>
    /\ seq[Len(seq)] = n
    /\ CountOf(seq, n) = 1

\* the job registered its parsed assets with the sink
Parsed(w) ==
    /\ sinkLog[w] # <<>>
    /\ Head(sinkLog[w]).op = "addWorker"

\* the counts reported never decrease and the total is reported at most once
ReportsInOrder ==
    /\ NonDecreasing(progress)
    /\ CountOf(progress, files) <= 1
    /\ \A w \in WorkerIds :
        Parsed(w) =>
            /\ NonDecreasing(Reports(sinkLog[w]))
            /\ CountOf(Reports(sinkLog[w]), total[w]) <= 1

\* the job without extraction has made its reports
DirectReported(w) ==
    /\ variant = "direct"
    /\ Parsed(w)
    /\ jpc[w] \in {"generate", "savelog", "done"}

\* C19 (as claimed): the processed counts reported to the sink never
\* decrease, and the total N is reported exactly once, as the last count:
\* when the file pool returns, and when the job without extraction has
\* made its reports.
C19_CountReachesTotalOnceAtEnd ==
    /\ ReportsInOrder
    /\ filePc = "returned" => OnceAtEnd(progress, files)
    /\ \A w \in WorkerIds :
        DirectReported(w) => OnceAtEnd(Reports(sinkLog[w]), total[w])

\* C19 (amended): the same for every run with at least one file; the file pool
\* reports no count at all for an empty list of files.
C19_CountReachesTotalOnceAtEndIfFiles ==
    /\ ReportsInOrder
    /\ (filePc = "returned" /\ files >= 1) => OnceAtEnd(progress, files)
    /\ (filePc = "returned" /\ files = 0) => progress = <<>>
    /\ \A w \in WorkerIds :
        DirectReported(w) => OnceAtEnd(Reports(sinkLog[w]), total[w])

\* C19 witness: the file pool returned after six files, one of them skipped
\* and one failed, with 6 as its last report.
C19_Witness ==
    /\ filePc = "returned"
    /\ files = 6
    /\ \E f \in 1..files : task[f] = "skipped"
    /\ \E f \in 1..files : fileResult[f] = "failure"
    /\ Len(progress) > files
    /\ progress[Len(progress)] = 6

\* C20 (as claimed): processFilesWithPool calls tui.updateWorker exactly once
\* per file record, when the record reaches its outcome: at every point the
\* calls made are as many as the records that reached their outcome, and at
\* the return as many as the records submitted.
C20_OneCallbackPerFile ==
    /\ Len(progress) =
            Cardinality({f \in 1..files : task[f] \in {"skipped", "done"}})
    /\ filePc = "returned" => Len(progress) = files

\* the last sink call the job made ("none": no call yet)
LastCall(w) ==
    IF sinkLog[w] = <<>> THEN "none" ELSE sinkLog[w][Len(sinkLog[w])].op

\* C21 (as claimed): a job that is at the work of a phase has pushed the sink
\* update of the transition into that phase: some update while it parses,
\* the registration of its files while it extracts, setGenerating while the
\* generator runs, completeWorker once it has returned.
C21_SinkUpdateBeforeEachPhase ==
    \A w \in WorkerIds :
        Held(w) =>
            /\ jpc[w] = "load" => sinkLog[w] # <<>>
            /\ jpc[w] \in {"gitkeep", "extract"} =>
                    SeqCount(sinkLog[w], "addWorker") = 1
            /\ jpc[w] = "generate" => LastCall(w) = "setGenerating"
            /\ Terminal(w) => LastCall(w) = "completeWorker"

\* the files of the call that are in the given state
FilesIn(states) == {f \in 1..files : task[f] \in states}

\* the files whose promise resolved with the given result
FilesWith(res) == {f \in 1..files : fileResult[f] = res}

\* C22: a record whose extension maps to "skip" is never handed to
\* processFile (it is never running and has no result), it adds exactly one
\* to processed, and the log gets a warning for it and no error: processed
\* counts the skipped and the settled records once each, the warnings are
\* those of the skipped records and of the unknown types, and the errors and
\* files_failed are those of the failed results alone.
C22_SkippedFileWarnedNotExtracted ==
    /\ \A f \in 1..files :
        extension[f] = "media" =>
            /\ task[f] \in {"queued", "skipped"}
            /\ fileResult[f] = "none"
    /\ processed = Cardinality(FilesIn({"skipped"}))
                        + Cardinality(FilesIn({"done"}))
    /\ fileLogger.warnings =
            Cardinality(FilesIn({"skipped"}))
            + Cardinality({f \in FilesIn({"running", "done"}) :
                                extension[f] = "unmapped"})
    /\ fileLogger.errors = Cardinality(FilesWith("failure"))
    /\ fileLogger.filesFailed = Cardinality(FilesWith("failure"))

\* C22 witness: the pool returned after two files, the first one skipped and
\* the second one extracted: one warning, no error, two files counted.
C22_Witness ==
    /\ filePc = "returned"
    /\ files = 2
    /\ extension[1] = "media"
    /\ task[1] = "skipped"
    /\ fileResult[2] = "success"
    /\ processed = 2
    /\ fileLogger.warnings = 1
    /\ fileLogger.errors = 0

BinaryMedia(file) == \E e \in skipExtensions : toLowerCase(file.extension) = e

\* the files handed to buildContentPrompt that are not binary media
Kept ==
    {i \in 1..Len(promptAssets.files) : ~BinaryMedia(promptAssets.files[i])}

\* the length of the sections of the files of Kept up to file k
RECURSIVE KeptLength(_)
KeptLength(k) ==
    IF k = 0 THEN 0
    ELSE KeptLength(k - 1)
         + (IF k \in Kept THEN FileSection(promptAssets.files[k]) ELSE 0)

HasNotice(c) == \E i \in 1..Len(c) : c[i].kind = "notice"

\* the files whose section is in the prompt
FileParts(c) == {c[i].file : i \in {j \in 1..Len(c) : c[j].kind = "file"}}

\* the length of what precedes the file sections in the prompt
RECURSIVE PreambleLength(_)
PreambleLength(c) ==
    IF c = <<>> THEN 0
    ELSE (IF Head(c).kind \in {"header", "directory", "files"}
          THEN Head(c).length ELSE 0) + PreambleLength(Tail(c))

Larger(a, b) == IF a >= b THEN a ELSE b

\* C24 (as claimed): when the sections of the files exceed the budget of
\* 150,000 characters, the prompt holds the truncation notice and is no
\* longer than 150,000 characters plus the notice, for any directory listing.
C24_TruncatedWithinBudget ==
    (promptPc = "returned" /\ KeptLength(Len(promptAssets.files)) > MAX_CONTENT_SIZE)
    => /\ HasNotice(content)
       /\ StringLength(content) <= MAX_CONTENT_SIZE + NOTICE

\* C24 (amended): when the sections of the files exceed the budget, the
\* prompt holds the truncation notice and is no longer than the notice plus
\* the larger of 150,000 and the length of what precedes the file sections
\* (the header, the directory listing, the heading of the files).
C24_TruncatedWithinBudgetOrPreamble ==
    (promptPc = "returned" /\ KeptLength(Len(promptAssets.files)) > MAX_CONTENT_SIZE)
    => /\ HasNotice(content)
       /\ StringLength(content)
            <= Larger(MAX_CONTENT_SIZE, PreambleLength(content)) + NOTICE

\* a prompt with a directory listing, cut after a file section
C24_Witness ==
    /\ promptPc = "returned"
    /\ KeptLength(Len(promptAssets.files)) > MAX_CONTENT_SIZE
    /\ promptAssets.directoryListing # 0
    /\ FileParts(content) # {}
    /\ HasNotice(content)

\* C25: a file whose extension is in the skip set has no section in the
\* prompt, and the prompt is the one the other files alone give: it holds the
\* sections of the longest run of them that fits the budget, and the notice
\* exactly when one of them does not fit.
C25_BinaryMediaLeftOut ==
    promptPc = "returned"
    => /\ FileParts(content)
            = {k \in Kept :
                 PreambleLength(content) + KeptLength(k) <= MAX_CONTENT_SIZE}
       /\ HasNotice(content)
            <=> \E k \in Kept :
                 PreambleLength(content) + KeptLength(k) > MAX_CONTENT_SIZE

\* a media file larger than the budget comes first, with an upper-case
\* extension; the text file after it is in the prompt, without a notice
C25_Witness ==
    /\ promptPc = "returned"
    /\ \E i, j \in 1..Len(promptAssets.files) :
        /\ i < j
        /\ promptAssets.files[i].extension = ".MP4"
        /\ promptAssets.files[i].content > ExactFit
        /\ j \in FileParts(content)
    /\ ~HasNotice(content)

\* the text of p after its last '/' or '\', p itself if it has none
LastSegment(p) ==
    LET seps == {i \in 1..Len(p) : p[i] \in {"/", "\\"}}
    IN  IF seps = {} THEN p
        ELSE SubSeq(p, (CHOOSE i \in seps : \A j \in seps : j <= i) + 1, Len(p))

\* '.' and the lower-cased text after the last '.' of n, "" if n has no '.'
DotSuffix(n) ==
    LET dots == {i \in 1..Len(n) : n[i] = "."}
    IN  IF dots = {} THEN <<>>
        ELSE <<".">> \o toLowerCaseChars(
                 SubSeq(n, (CHOOSE i \in dots : \A j \in dots : j <= i) + 1,
                        Len(n)))

\* the record of file i is the one of pair i, its content being `expected`
RecordOf(i, expected) ==
    LET pair == blobSource.pairs[i]
        file == parsed.files[i]
    IN  /\ file.path = pair.path
        /\ file.content = expected
        /\ file.filename = LastSegment(pair.path)
        /\ file.extension = DotSuffix(LastSegment(pair.path))

\* C28 (as claimed): the blob written from a list of (path, content) pairs
\* parses to as many records, in the same order, each with the path, the
\* trimmed content, the last path segment as its name and the lower-cased
\* suffix of the name as its extension.
C28_ParseRoundTrip ==
    (parsePc = "returned" /\ blobSource.marker)
    => /\ Len(parsed.files) = Len(blobSource.pairs)
       /\ \A i \in 1..Len(parsed.files) :
            RecordOf(i, trim(blobSource.pairs[i].content))

\* C28 (amended): as claimed, the content of a record being the trimmed
\* original in which every "\r\n" has become "\n".
C28_ParseRoundTripNormalized ==
    (parsePc = "returned" /\ blobSource.marker)
    => /\ Len(parsed.files) = Len(blobSource.pairs)
       /\ \A i \in 1..Len(parsed.files) :
            RecordOf(i, trim(replaceCRLF(blobSource.pairs[i].content)))

\* two files parsed from a blob with Windows line endings, one of them with
\* a Windows line ending inside its content, the other with a line of '='
C28_Witness ==
    /\ parsePc = "returned"
    /\ blobSource.marker
    /\ blobSource.eol = <<"\r", "\n">>
    /\ Len(parsed.files) = 2
    /\ parsed.files[1].content = <<"a", "\n", "b">>
    /\ blobSource.pairs[1].content = <<"a", "\r", "\n", "b">>
    /\ parsed.files[2].content = <<"a", "\n", FD, "\n", "b">>
    /\ parsed.files[2].extension = <<".", "m", "d">>

\* C29: a blob with a Directory List section and no Files marker parses to no
\* file at all, whatever follows the listing, and the directory listing
\* starts with the listing of the blob (it is the listing when nothing
\* follows it); parseFileAssets returns.
C29_NoFilesMarkerNoFiles ==
    (parsePc = "returned" /\ ~blobSource.marker)
    => /\ parsed.files = <<>>
       /\ SubSeq(parsed.directoryListing, 1, Len(blobSource.listing))
            = blobSource.listing
       /\ blobSource.pairs = <<>>
            => parsed.directoryListing = blobSource.listing

\* a blob with a listing, no marker and file blocks after the listing
C29_Witness ==
    /\ parsePc = "returned"
    /\ ~blobSource.marker
    /\ blobSource.listing # <<>>
    /\ blobSource.pairs # <<>>
    /\ parsed.files = <<>>
    /\ parsed.directoryListing # <<>>

\* the asset file a course job reads (loadFileAssets) is in the directory
HasRequiredAssetFile(input) == input.optimized

\* the text given with --workers is a positive integer
PositiveInteger(arg) == arg.kind = "number" /\ arg.tail = "" /\ arg.lead >= 1

\* what the CLI has to check before it starts the pool; no --workers option
\* stands for the default count
PreconditionsHold ==
    /\ \A i \in 1..Len(cliArgs.inputs) : HasRequiredAssetFile(cliArgs.inputs[i])
    /\ cliArgs.ccg = "known"
    /\ cliArgs.workers.kind = "absent" \/ PositiveInteger(cliArgs.workers)

\* C26: runWorkerPool is called only when every input path has the required
\* asset file, the skill is known and the worker count is a positive integer;
\* nothing of the pool runs before the checks are over, and a process that
\* ends without calling it ends with a non-zero status.
C26_NoPoolUnlessPreconditions ==
    /\ cliPc = "pool" => PreconditionsHold
    /\ cliPc # "pool" => poolPc = "idle" /\ nextWorkerId = 1
    /\ cliPc = "exited" => exitStatus # 0

\* C27: runWorkerPool does not throw, and the process that started the pool
\* ends with status 0, whatever became of the course jobs.
C27_ExitStatusZeroWhateverTheJobs ==
    /\ poolPc # "threw"
    /\ cliPc = "exited" => poolPc = "returned" /\ exitStatus = 0

\* the process has ended with status 0 after a run of two courses or more in
\* which one course failed and another one was generated
C27_Witness ==
    /\ cliPc = "exited"
    /\ exitStatus = 0
    /\ \E w1, w2 \in WorkerIds :
        /\ tuiWorkers[w1].status = "error"
        /\ tuiWorkers[w2].status = "complete"

\* C30: the worker ids are given out once each, one per course, and a step of
\* a course job leaves the WorkerStatus slot, the sink calls and the Logger
\* of every other worker id as they were.
C30_JobsKeepToTheirOwnIdAndLog ==
    /\ [](/\ \A w \in WorkerIds : Started(w) <=> w < nextWorkerId
          /\ \A w1, w2 \in WorkerIds :
                (Started(w1) /\ Started(w2) /\ w1 # w2)
                    => coursePath[w1] # coursePath[w2])
    /\ [][\A w \in WorkerIds :
            JobNext(w) =>
                \A o \in WorkerIds \ {w} :
                    /\ tuiWorkers'[o] = tuiWorkers[o]
                    /\ sinkLog'[o] = sinkLog[o]
                    /\ logger'[o] = logger[o]]_vars

\* two jobs held by the pool at once: one has just failed with an exception,
\* with an error in its log and its slot in the error state; the other is
\* registered with the sink and has no error
C30_Witness ==
    \E w1, w2 \in inProgress :
        /\ w1 # w2
        /\ tuiWorkers[w1].status = "error"
        /\ logger[w1].errors > 0
        /\ tuiWorkers[w2].status \in {"pending", "processing"}
        /\ logger[w2].errors = 0
        /\ sinkLog[w2] # <<>>

\* an outcome is added to the Logger of w in this step
OutcomeAdded(w) ==
    \/ logger'[w].filesProcessed > logger[w].filesProcessed
    \/ logger'[w].warnings > logger[w].warnings
    \/ logger'[w].errors > logger[w].errors

\* C31: the run log of a job is written at most once, and once saveLog has
\* been called (the job awaits it, or the log is written) no success, warning
\* or error is added to the job's Logger.
C31_LogWrittenOnceAfterLastOutcome ==
    /\ [](\A w \in WorkerIds : logger[w].saved <= 1)
    /\ [][\A w \in WorkerIds :
            (jpc[w] = "savelog" \/ logger[w].saved > 0) => ~OutcomeAdded(w)]_vars

\* init() ended in its catch block
Fallback == tuiPc = "ready" /\ tuiInit # "started"

Registered(id) == tuiWorkers[id].status # "absent"

\* C32: when the renderer cannot be initialised the TUI is in text mode
\* (enabled is false); there no method throws, addWorker registers the worker
\* as pending with its total, updateWorker sets it to processing with the
\* count, completeWorker sets it to complete or error, setGenerating and
\* setGenerationComplete keep the status; and in any mode a call other than
\* addWorker for an id that is not registered changes nothing.
C32_TextModeNeverFailsKeepsStatus ==
    /\ [](Fallback => (~enabled /\ ~tuiThrew))
    /\ [][Fallback =>
            \A id \in TuiIds :
                /\ \A n \in 0..MaxFiles :
                     TuiAddWorker(id, n) =>
                        (tuiWorkers'[id] = [status |-> "pending",
                                            processed |-> 0, total |-> n])
                /\ \A n \in 0..MaxCount :
                     (Registered(id) /\ TuiUpdateWorker(id, n)) =>
                        (tuiWorkers'[id] = [status |-> "processing",
                                            processed |-> n,
                                            total |-> tuiWorkers[id].total])
                /\ \A ok \in BOOLEAN :
                     (Registered(id) /\ TuiCompleteWorker(id, ok)) =>
                        (tuiWorkers'[id] =
                            [status |-> IF ok THEN "complete" ELSE "error",
                             processed |-> tuiWorkers[id].processed,
                             total |-> tuiWorkers[id].total])
                /\ (TuiSetGenerating(id) \/ TuiSetGenerationComplete(id)) =>
                        (tuiWorkers'[id] = tuiWorkers[id])]_vars
    /\ [][\A id \in TuiIds :
            (/\ ~Registered(id)
             /\ \/ \E n \in 0..MaxCount : TuiUpdateWorker(id, n)
                \/ \E ok \in BOOLEAN : TuiCompleteWorker(id, ok)
                \/ TuiSetGenerating(id)
                \/ TuiSetGenerationComplete(id))
            => UNCHANGED vars]_vars

\* in text mode, with a renderer object left behind by init(), a worker was
\* updated past its total and then completed, while another id was never
\* registered
C32_Witness ==
    /\ Fallback
    /\ renderer
    /\ \E id \in TuiIds :
        /\ tuiWorkers[id].status = "error"
        /\ tuiWorkers[id].processed > tuiWorkers[id].total
    /\ \E id \in TuiIds : ~Registered(id)

\* the records of the course whose processFile call is awaited
InFlightFiles == {f \in 1..files : task[f] = "running"}

\* C33: within one call of processFilesWithPool no two file jobs in flight at
\* the same time write or remove the same path under outputDir: the records of
\* the course, which differ in their paths, have different scratch files and
\* different output paths.
C33_InFlightPathsDisjoint ==
    \A f, g \in InFlightFiles :
        f # g => PathsTouched(fileEntry[f]) \cap PathsTouched(fileEntry[g]) = {}

\* C34: when processFilesWithPool returns, every submitted file is in exactly
\* one counter of the run log: files_processed + files_failed + the number of
\* skipped binary files is the number of submitted files.
C34_EveryFileCountedOnce ==
    filePc = "returned" =>
        fileLogger.filesProcessed + fileLogger.filesFailed
            + Cardinality(FilesIn({"skipped"})) = files

\* the log runWorker returns with its result: logger.getRunLog()
ReturnedLog(w) == getRunLog(logger[w])

\* C35: the status of the log runWorker returns is "failed" whenever the job
\* ended FAILED (completeWorker(false): zero files, no file extracted,
\* generation failure, exception), and is not "failed" whenever the job ended
\* COMPLETE (completeWorker(true)).
C35_LogStatusAgreesWithOutcome ==
    \A w \in WorkerIds :
        (Terminal(w) /\ Held(w)) =>
            /\ result[w] # "generated" => ReturnedLog(w).status = "failed"
            /\ result[w] = "generated" => ReturnedLog(w).status # "failed"

\* C36: every input path that passed the asset-file check of main can be
\* loaded by its course job: when runWorkerPool is called, loadFileAssets
\* finds the asset file of every input path.
C36_AcceptedPathsCanBeLoaded ==
    cliPc = "pool" =>
        \A i \in 1..Len(cliArgs.inputs) :
            ~AssetsFileNotFound(cliArgs.inputs[i])

\* C37: a GeneratorResult with success = true implies that the claude process
\* created at least one artifact under outputDir during this call of
\* runGenerator: more .md files are there than were before the call.
C37_SuccessImpliesNewArtifact ==
    (genPc = "returned" /\ genResult.success) => mdFiles > oldFiles

\* C38: in every progress update sent for a worker slot 0 <= processed <=
\* total, with total the file count addWorker registered for the slot: for
\* every count processFilesWithPool passes to updateWorker, for every
\* updateWorker call of a course job, and in the slot's status.
C38_ProcessedWithinTotal ==
    /\ \A i \in 1..Len(progress) : (0 <= progress[i] /\ progress[i] <= files)
    /\ \A w \in WorkerIds :
        /\ \A i \in 1..Len(sinkLog[w]) :
              sinkLog[w][i].op = "updateWorker" =>
                  (0 <= sinkLog[w][i].n /\ sinkLog[w][i].n <= total[w])
        /\ Registered(w) =>
              /\ 0 <= tuiWorkers[w].processed
              /\ tuiWorkers[w].processed <= tuiWorkers[w].total

\* the file pool returned after as many files as the bound allows, some
\* skipped, some failed with and without an error, some extracted, and every
\* count from 0 to the total was reported
C38_Witness ==
    /\ filePc = "returned"
    /\ files = MaxPoolFiles
    /\ \E f \in 1..files : task[f] = "skipped"
    /\ \E f \in 1..files : fileResult[f] = "failure"
    /\ \E f \in 1..files : fileResult[f] = "failure_no_error"
    /\ \E f \in 1..files : fileResult[f] = "success"
    /\ \A n \in 0..files : \E i \in 1..Len(progress) : progress[i] = n

\* C39: after any sequence of success / warn / error calls, getRunLog reports
\* files_failed equal to the length of the errors list (the number of error
\* calls) and files_processed equal to the number of success calls; its status
\* is "failed" iff an error was recorded, "completed_with_warnings" iff no
\* error and a warning were recorded, "success" iff neither; and warn changes
\* neither counter.
C39_RunLogCountsAndStatus ==
    /\ [](LET log == getRunLog(runLogger)
          IN  /\ log.files_failed = log.errors
              /\ log.errors = logCalls.error
              /\ log.warnings = logCalls.warn
              /\ log.files_processed = logCalls.success
              /\ log.status = "failed" <=> logCalls.error >= 1
              /\ log.status = "completed_with_warnings" <=>
                    (logCalls.error = 0 /\ logCalls.warn >= 1)
              /\ log.status = "success" <=>
                    (logCalls.error = 0 /\ logCalls.warn = 0))
    /\ [][WarnCalled =>
            /\ getRunLog(runLogger').files_processed
                    = getRunLog(runLogger).files_processed
            /\ getRunLog(runLogger').files_failed
                    = getRunLog(runLogger).files_failed]_vars

\* a Logger that was called with success, warn and error, each more than once
C39_Witness ==
    /\ logCalls.success >= 2
    /\ logCalls.warn >= 2
    /\ logCalls.error >= 2
    /\ getRunLog(runLogger).status = "failed"

\* the places of the prompt that hold the truncation notice
Notices(c) == {i \in 1..Len(c) : c[i].kind = "notice"}

\* file k of Kept is the first one whose section does not fit under the
\* ceiling after the sections of the files of Kept before it
FirstNotFitting(k) ==
    /\ k \in Kept
    /\ PreambleLength(content) + KeptLength(k) > MAX_CONTENT_SIZE
    /\ \A j \in Kept :
          j < k => PreambleLength(content) + KeptLength(j) <= MAX_CONTENT_SIZE

\* C40: the files in the prompt are a prefix, in input order, of the files
\* that are not binary: none of the binary ones, no gap, sections in the order
\* of the input; once a file does not fit no later file is included, however
\* small; the notice appears at most once, and exactly when a non-binary file
\* was left out.
C40_IncludedFilesArePrefix ==
    promptPc = "returned"
    => /\ FileParts(content) \subseteq Kept
       /\ \A k \in FileParts(content) :
            \A j \in Kept : j < k => j \in FileParts(content)
       /\ \A a, b \in 1..Len(content) :
            (a < b /\ content[a].kind = "file" /\ content[b].kind = "file")
                => content[a].file < content[b].file
       /\ \A k \in Kept :
            FirstNotFitting(k) =>
                /\ \A j \in Kept : j < k => j \in FileParts(content)
                /\ \A j \in Kept : j >= k => j \notin FileParts(content)
       /\ (\A k \in Kept : ~FirstNotFitting(k)) => FileParts(content) = Kept
       /\ Cardinality(Notices(content)) <= 1
       /\ (Notices(content) # {}) <=> (Kept \ FileParts(content) # {})

\* a file was included, the next one did not fit, and a later one that would
\* have fitted in the room that was left is not in the prompt, which holds
\* one notice
C40_Witness ==
    /\ promptPc = "returned"
    /\ Cardinality(Notices(content)) = 1
    /\ \E i, j, k \in Kept :
        /\ i < j
        /\ j < k
        /\ i \in FileParts(content)
        /\ FirstNotFitting(j)
        /\ k \notin FileParts(content)
        /\ PreambleLength(content) + KeptLength(i)
              + FileSection(promptAssets.files[k]) <= MAX_CONTENT_SIZE

==============================================================================
